---------------------------- MODULE Spec2Model ----------------------------
(***************************************************************************)
(* A model of the Krakatau WASM host bridge: server.js (KrakatauServer:    *)
(* initialize, decompile, assemble, authenticate, handleRequest) on the    *)
(* Node.js event loop.                                                     *)
(*                                                                         *)
(* JavaScript runs one task at a time: a task keeps the thread until it    *)
(* reaches an await or returns.  The variable cur names the request whose  *)
(* code is running (0: the thread is free).  A request takes a step only   *)
(* when the thread is free or its own; a step that ends at an await or a   *)
(* return frees the thread, any other step keeps it.                       *)
(*                                                                         *)
(* Text is a sequence of character codes, bytes are sequences of 0..255.   *)
(***************************************************************************)
EXTENDS Integers, Sequences, FiniteSets, TLC

(***************************************************************************)
(* Bounds of the model.                                                    *)
(***************************************************************************)
\* Number of HTTP requests the server receives (all may be in flight at once).
NumReq == 2

Requests == 1..NumReq

(***************************************************************************)
(* Text helpers.                                                           *)
(***************************************************************************)
\* JavaScript's undefined for a text value (an unset environment variable, an
\* absent header, a destructured array element that is missing).
Undef == <<-1>>

\* JavaScript truthiness of a text value: undefined and '' are falsy.
Truthy(s) == s # Undef /\ s # <<>>

StartsWith(s, p) == Len(s) >= Len(p) /\ SubSeq(s, 1, Len(p)) = p

\* endsWith with the case of the letters ignored.
EndsWithIgnoringCase(s, p) ==
    Len(s) >= Len(p)
    /\ \A i \in 1..Len(p) :
        LET c == s[Len(s) - Len(p) + i] IN
        (IF c >= 65 /\ c <= 90 THEN c + 32 ELSE c) = p[i]

EndsWith(s, p) == Len(s) >= Len(p) /\ SubSeq(s, Len(s) - Len(p) + 1, Len(s)) = p

\* String.prototype.split(sep) for a one-character separator: the list of
\* the pieces between separators (one piece when there is none).
RECURSIVE SplitFrom(_, _, _, _)
SplitFrom(s, sep, i, piece) ==
    IF i > Len(s) THEN <<piece>>
    ELSE IF s[i] = sep THEN <<piece>> \o SplitFrom(s, sep, i + 1, <<>>)
    ELSE SplitFrom(s, sep, i + 1, Append(piece, s[i]))

Split(s, sep) == SplitFrom(s, sep, 1, <<>>)

\* arr[i] of a JavaScript array, 0-based: undefined past the end.
At(arr, i) == IF i + 1 <= Len(arr) THEN arr[i + 1] ELSE Undef

\* String.prototype.toLowerCase on ASCII text.
ToLowerCase(s) == [i \in 1..Len(s) |-> IF s[i] >= 65 /\ s[i] <= 90 THEN s[i] + 32 ELSE s[i]]

(***************************************************************************)
(* Base64, as Buffer implements it.                                        *)
(***************************************************************************)
\* The character of a 6-bit value.
B64Char(v) ==
    IF v < 26 THEN 65 + v
    ELSE IF v < 52 THEN 97 + (v - 26)
    ELSE IF v < 62 THEN 48 + (v - 52)
    ELSE IF v = 62 THEN 43 ELSE 47

\* The 6-bit value of a character, -1 for a character outside the alphabet.
B64Val(c) ==
    IF c >= 65 /\ c <= 90 THEN c - 65
    ELSE IF c >= 97 /\ c <= 122 THEN c - 97 + 26
    ELSE IF c >= 48 /\ c <= 57 THEN c - 48 + 52
    ELSE IF c = 43 THEN 62
    ELSE IF c = 47 THEN 63 ELSE -1

\* Buffer.toString('base64'): three bytes to four characters, '=' padding.
RECURSIVE Base64Encode(_)
Base64Encode(b) ==
    IF Len(b) = 0 THEN <<>>
    ELSE IF Len(b) = 1 THEN
        <<B64Char(b[1] \div 4), B64Char((b[1] % 4) * 16), 61, 61>>
    ELSE IF Len(b) = 2 THEN
        <<B64Char(b[1] \div 4), B64Char((b[1] % 4) * 16 + b[2] \div 16),
          B64Char((b[2] % 16) * 4), 61>>
    ELSE
        <<B64Char(b[1] \div 4), B64Char((b[1] % 4) * 16 + b[2] \div 16),
          B64Char((b[2] % 16) * 4 + b[3] \div 64), B64Char(b[3] % 64)>>
        \o Base64Encode(SubSeq(b, 4, Len(b)))

\* The 6-bit values of the text up to its first '=', characters outside the
\* alphabet skipped (Buffer.from(text, 'base64') does not reject them).
RECURSIVE B64Values(_, _)
B64Values(s, i) ==
    IF i > Len(s) \/ s[i] = 61 THEN <<>>
    ELSE IF B64Val(s[i]) < 0 THEN B64Values(s, i + 1)
    ELSE <<B64Val(s[i])>> \o B64Values(s, i + 1)

RECURSIVE B64Bytes(_)
B64Bytes(v) ==
    IF Len(v) < 2 THEN <<>>
    ELSE IF Len(v) = 2 THEN <<v[1] * 4 + v[2] \div 16>>
    ELSE IF Len(v) = 3 THEN
        <<v[1] * 4 + v[2] \div 16, (v[2] % 16) * 16 + v[3] \div 4>>
    ELSE
        <<v[1] * 4 + v[2] \div 16, (v[2] % 16) * 16 + v[3] \div 4,
          (v[3] % 4) * 64 + v[4]>>
        \o B64Bytes(SubSeq(v, 5, Len(v)))

\* Buffer.from(text, 'base64').
Base64Decode(s) == B64Bytes(B64Values(s, 1))

\* Buffer.toString('ascii'): the high bit of every byte is dropped.
ToAscii(b) == [i \in 1..Len(b) |-> b[i] % 128]

(***************************************************************************)
(* Configuration (environment variables) and request headers.              *)
(***************************************************************************)
\* "Basic "
BasicPrefix == <<66, 97, 115, 105, 99, 32>>

\* "authorization", the key Node stores the Authorization header under.
AuthorizationKey == <<97, 117, 116, 104, 111, 114, 105, 122, 97, 116, 105, 111, 110>>

\* headers[name]: undefined when the request has no such header.
Header(headers, name) == IF name \in DOMAIN headers THEN headers[name] ELSE Undef

\* The Authorization header a client sends for a user name and a password
\* (RFC 7617): "Basic " followed by base64(user ":" password).
BasicHeader(user, password) == BasicPrefix \o Base64Encode(user \o <<58>> \o password)


VARIABLES
    cfg,           \* the environment: authUser, authPassword, authTokenHeader, authTokenValue
    wasmFile,      \* krak2.wasm on disk: whether it exists and what the build exports
    crash,         \* 0, or the request whose rejected handleRequest promise ended the process
    cur,           \* the request whose code holds the JavaScript thread, 0 when it is free
    initialized,   \* this.initialized
    wasmModule,    \* this.wasmModule: 0 (null) or the request whose compile produced it
    wasmInstance,  \* this.wasmInstance: 0 (null) or the request whose instantiate produced it
    memory,        \* this.memory: 0 (null) or the instance whose memory export it is
    loads,         \* how many WebAssembly.compile / instantiate calls were made
    eng,           \* the state inside the instance this.wasmInstance refers to
    pc,            \* where each request's handleRequest stands
    req,           \* the request as received: method, url, headers
    file,          \* req.file, as multer left it
    bridge,        \* the locals of the request's decompile()/assemble() call
    err,           \* the Error in flight for the request (<<>>: none)
    res,           \* the response written for the request
    calls,         \* per request: how often it called initialize, engine exports, free_response, multer
                   \* and res.end
    cli,           \* a run of the command line tool run.js (a process of its own)
    page           \* a KrakatauDecompiler of a browser page (part_001 or part_002)

vars == <<cfg, wasmFile, crash, cur, initialized, wasmModule, wasmInstance, memory,
          loads, eng, pc, req, file, bridge, err, res, calls, cli, page>>

\* The variables of the server.
serverVars == <<cfg, wasmFile, crash, cur, initialized, wasmModule, wasmInstance, memory,
                loads, eng, pc, req, file, bridge, err, res, calls>>

\* this.decompileEndpoint and this.assembleEndpoint with no DECOMPILE_ENDPOINT
\* and ASSEMBLE_ENDPOINT in the environment.
decompileEndpoint == "/decompile"

assembleEndpoint == "/assemble"

(***************************************************************************)
(* authenticate(req)                                                       *)
(***************************************************************************)
\* The condition under which the basic-auth check runs.
BasicEnforcedUserOnly == Truthy(cfg.authUser)

BasicEnforced == Truthy(cfg.authUser) /\ Truthy(cfg.authPassword)

\* The condition under which the token check runs.
TokenEnforced == Truthy(cfg.authTokenHeader) /\ Truthy(cfg.authTokenValue)

\* The basic-auth check: the Authorization header must start with "Basic ",
\* and the first two ':'-separated pieces of its decoded second word must be
\* the configured user and password.
BasicCheck(headers) ==
    LET authHeader == Header(headers, AuthorizationKey) IN
    IF ~Truthy(authHeader) \/ ~StartsWith(authHeader, BasicPrefix) THEN FALSE
    ELSE
        LET base64Credentials == At(Split(authHeader, 32), 1)
            credentials == ToAscii(Base64Decode(base64Credentials))
            parts == Split(credentials, 58)
            username == At(parts, 0)
            password == At(parts, 1)
        IN ~(username # cfg.authUser \/ password # cfg.authPassword)

\* The token check: the header named by AUTH_TOKEN_HEADER (Node stores header
\* names in lower case) must equal AUTH_TOKEN_VALUE.
TokenCheck(headers) ==
    Header(headers, ToLowerCase(cfg.authTokenHeader)) = cfg.authTokenValue

authenticate(headers) ==
    IF BasicEnforced /\ ~BasicCheck(headers) THEN FALSE
    ELSE IF TokenEnforced /\ ~TokenCheck(headers) THEN FALSE
    ELSE TRUE

(***************************************************************************)
(* The response object.                                                    *)
(***************************************************************************)
NoResponse ==
    [status |-> 0, ctype |-> "", error |-> "", message |-> <<>>, output |-> 0,
     wwwAuth |-> "", cors |-> FALSE]

\* res.writeHead(status, {'Content-Type': 'application/json'}) and
\* res.end(JSON.stringify({error})).
JsonError(status, error) ==
    [NoResponse EXCEPT !.status = status, !.ctype = "application/json", !.error = error]

\* The value of the WWW-Authenticate header of the 401 response.
WwwAuthenticate == IF Truthy(cfg.authUser) THEN "Basic realm=\"Krakatau Server\"" ELSE "undefined"

NoFile == [present |-> FALSE, originalname |-> <<>>, buffer |-> <<>>]

\* The request encoded for the engine, before a bridge function built one.
NoRequestJson == [file_path |-> Undef]

\* The values the engine returned are the locals inputPtr, result (a
\* negative status is -1, any other 0), responseLength (the same way) and
\* responsePtr; Unset before the call that assigns them.
Unset == -2

\* The decoded response before JSON.parse has produced one.
NoResponseJson == [success |-> FALSE, output |-> 0, error |-> ""]

\* A JavaScript value a bridge function returns: undefined, a string (text:
\* the request whose payload the text was made from) or an object.
NoValue == [type |-> "undefined", text |-> 0, members |-> NoResponseJson]

\* bytes and result: the response bytes copied out and the request they
\* answer; response: the decoded response; value: what the call returned.
\* wasmMemory and responseMemory are the two Uint8Array views of
\* this.memory.buffer: "none" before the view is made, "fresh" once it is
\* made, "stale" after an engine call made since (a call that grows the
\* memory detaches the buffer the view was made of).  readView names the
\* view the response was read through.
NoBridge ==
    [op |-> "", request |-> NoRequestJson, inputPtr |-> Unset, status |-> Unset,
     responseLength |-> Unset, responsePtr |-> Unset, copied |-> FALSE, bytes |-> "", result |-> 0,
     response |-> NoResponseJson, value |-> NoValue,
     wasmMemory |-> "none", responseMemory |-> "none", readView |-> ""]

\* A view after an engine call.
Stale(view) == IF view = "fresh" THEN "stale" ELSE view

\* answers: how many responses were written for the request.
NoCalls == [init |-> 0, engine |-> 0, free |-> 0, multer |-> 0, answers |-> 0]

\* The request body as the upload middleware meets it: "none" (no body),
\* "raw" (bytes under a content type that is not multipart), "multipart"
\* (well-formed multipart/form-data, with at most one file part, whose field
\* name is field: <<>> when there is no file part), "malformed" (a multipart
\* body the parser rejects, or a file over the size limit).  "unread": the
\* middleware has not run.
BodyOf(kind, field, filename, bytes) ==
    [kind |-> kind, field |-> field, filename |-> filename, bytes |-> bytes]

Unread == BodyOf("unread", <<>>, <<>>, <<>>)

NoRequest ==
    [method |-> "", url |-> [valid |-> FALSE, pathname |-> "", search |-> <<>>],
     headers |-> <<>>, body |-> Unread]

FreshEngine == [allocs |-> 0, input |-> 0, request |-> NoRequestJson, resp |-> "", respOf |-> 0]

(***************************************************************************)
(* Sample inputs.                                                          *)
(***************************************************************************)
\* "u", "p", "a:b", "a", "x": user names and passwords.
TxtU == <<117>>

TxtP == <<112>>

TxtAColonB == <<97, 58, 98>>

TxtA == <<97>>

TxtX == <<120>>

\* "X-Key" and "t": a token header name and a token value.
TxtXKey == <<88, 45, 75, 101, 121>>

TxtT == <<116>>

\* "A.class", "A.j", ".class", ".j", "Unknown.class", "input.j"
NameAClass == <<65, 46, 99, 108, 97, 115, 115>>

NameAJ == <<65, 46, 106>>

ExtClass == <<46, 99, 108, 97, 115, 115>>

ExtJ == <<46, 106>>

NameUnknownClass == <<85, 110, 107, 110, 111, 119, 110>> \o ExtClass

NameInputJ == <<105, 110, 112, 117, 116>> \o ExtJ

\* CA FE BA BE
MagicBytes == <<202, 254, 186, 190>>

\* The environments of the concurrency model: no authentication, basic
\* authentication, token authentication alone.
MainConfigs ==
    { [authUser |-> Undef, authPassword |-> Undef, authTokenHeader |-> Undef, authTokenValue |-> Undef],
      [authUser |-> TxtU, authPassword |-> TxtP, authTokenHeader |-> Undef, authTokenValue |-> Undef],
      [authUser |-> Undef, authPassword |-> Undef, authTokenHeader |-> TxtXKey, authTokenValue |-> TxtT] }

\* The environments of the authentication model: every variable unset, empty or set.
AuthConfigs ==
    [authUser : {Undef, <<>>, TxtU}, authPassword : {Undef, TxtP, TxtAColonB},
     authTokenHeader : {Undef, TxtXKey}, authTokenValue : {Undef, TxtT}]

\* The headers of a client that sends the configured credentials.
GoodHeaders(c) ==
    (IF Truthy(c.authUser) /\ Truthy(c.authPassword)
        THEN AuthorizationKey :> BasicHeader(c.authUser, c.authPassword) ELSE <<>>)
    @@ (IF Truthy(c.authTokenHeader) /\ Truthy(c.authTokenValue)
        THEN ToLowerCase(c.authTokenHeader) :> c.authTokenValue ELSE <<>>)

\* The headers of the requests of the concurrency model: none, or the configured ones.
MainHeaders(c) == {<<>>, GoodHeaders(c)}

\* The headers of the requests of the authentication model.
AuthHeaders ==
    LET authz == { Undef, BasicHeader(TxtU, TxtP), BasicHeader(TxtU, TxtAColonB),
                   BasicHeader(TxtU, TxtA), BasicHeader(TxtX, TxtP),
                   <<66, 101, 97, 114, 101, 114, 32>> \o Base64Encode(TxtU \o <<58>> \o TxtP) }
        token == { Undef, TxtT, TxtX }
    IN { (IF a = Undef THEN <<>> ELSE AuthorizationKey :> a)
         @@ (IF t = Undef THEN <<>> ELSE ToLowerCase(TxtXKey) :> t) : a \in authz, t \in token }

\* "roundtrip", "no_shortcodeattr": the names of the query parameters.
TxtRoundtrip == <<114, 111, 117, 110, 100, 116, 114, 105, 112>>

TxtNoShortCodeAttr ==
    <<110, 111, 95, 115, 104, 111, 114, 116, 99, 111, 100, 101, 97, 116, 116, 114>>

\* "true", "TRUE", "1", "false": values of query parameters.
TxtTrue == <<116, 114, 117, 101>>

TxtTrueUpper == <<84, 82, 85, 69>>

TxtOne == <<49>>

TxtFalse == <<102, 97, 108, 115, 101>>

\* Query strings, as the list of their name-value pairs.
Searches ==
    { <<>>,
      << <<TxtRoundtrip, TxtTrue>> >>, << <<TxtRoundtrip, TxtTrueUpper>> >>,
      << <<TxtRoundtrip, TxtOne>> >>, << <<TxtRoundtrip, <<>>>> >>,
      << <<TxtNoShortCodeAttr, TxtTrue>> >>, << <<TxtNoShortCodeAttr, TxtFalse>> >>,
      << <<TxtRoundtrip, TxtTrue>>, <<TxtNoShortCodeAttr, TxtTrue>> >>,
      << <<TxtRoundtrip, TxtFalse>>, <<TxtNoShortCodeAttr, TxtTrue>> >> }

Urls ==
    { [valid |-> FALSE, pathname |-> "", search |-> <<>>] }
    \cup { [valid |-> TRUE, pathname |-> p, search |-> <<>>] :
             p \in {decompileEndpoint, assembleEndpoint, "/other"} }
    \cup { [valid |-> TRUE, pathname |-> decompileEndpoint, search |-> q] : q \in Searches }

MainInputs(c) == [method : {"POST", "GET"}, url : Urls, headers : MainHeaders(c), body : {Unread}]

AuthInputs ==
    [method : {"POST"}, url : { [valid |-> TRUE, pathname |-> decompileEndpoint, search |-> <<>>] },
     headers : AuthHeaders, body : {Unread}]

\* "file", the field name given to upload.single, and "data", another one.
TxtFile == <<102, 105, 108, 101>>

TxtData == <<100, 97, 116, 97>>

\* "A.J"
NameAJUpper == <<65, 46, 74>>

\* The bodies of the requests of the one-request model.
Bodies ==
    { BodyOf("none", <<>>, <<>>, <<>>), BodyOf("malformed", <<>>, <<>>, <<>>),
      BodyOf("multipart", <<>>, <<>>, <<>>),
      BodyOf("multipart", TxtData, NameAClass, MagicBytes \o <<0>>),
      BodyOf("multipart", TxtFile, <<>>, MagicBytes \o <<0>>),
      BodyOf("raw", <<>>, <<>>, MagicBytes \o <<0>>),
      BodyOf("raw", <<>>, <<>>, <<202, 254, 186, 191>>) }
    \cup { BodyOf("multipart", TxtFile, n, b) :
             n \in {NameAClass, NameAJ, NameAJUpper},
             b \in { <<>>, <<202, 254, 186>>, MagicBytes, MagicBytes \o <<0>>,
                     <<190, 186, 254, 202>>, <<202, 254, 186, 191>> } }

\* The upload middleware taking a body that is not multipart for the file
\* itself (without a file name).
UploadSingleTakesRawBody(body) ==
    IF body.kind \in {"none", "raw"}
        THEN [body |-> body, error |-> FALSE,
              file |-> [present |-> TRUE, originalname |-> <<>>, buffer |-> body.bytes]]
    ELSE IF body.kind = "multipart" /\ body.field = TxtFile /\ body.filename # <<>>
        THEN [body |-> body, error |-> FALSE,
              file |-> [present |-> TRUE, originalname |-> body.filename, buffer |-> body.bytes]]
    ELSE [body |-> body, error |-> body.kind = "malformed", file |-> NoFile]

\* upload.single('file') with memory storage: a body that is not multipart
\* is passed over unread (no req.file); a multipart body gives req.file for
\* its file part in the field 'file', when the part has a file name; a file
\* part in another field and a malformed body are errors.
UploadSingle(body) ==
    IF body.kind = "malformed" \/ (body.kind = "multipart" /\ body.field \notin {<<>>, TxtFile})
        THEN [body |-> body, error |-> TRUE, file |-> NoFile]
    ELSE IF body.kind = "multipart" /\ body.field = TxtFile /\ body.filename # <<>>
        THEN [body |-> body, error |-> FALSE,
              file |-> [present |-> TRUE, originalname |-> body.filename, buffer |-> body.bytes]]
    ELSE [body |-> body, error |-> FALSE, file |-> NoFile]

\* What the upload middleware can leave: an error, no file, or a file.
Uploads == { UploadSingle(body) : body \in Bodies }

\* The exports checked at load, in the order of requiredFunctions.
requiredFunctions ==
    << "allocate_input_buffer", "decompile_json", "assemble_json",
       "get_response_length", "get_response_ptr", "free_response" >>

AllExports == {"memory"} \cup { requiredFunctions[i] : i \in 1..Len(requiredFunctions) }

\* The builds of krak2.wasm: absent, complete, without memory, without assemble_json.
WasmBuilds ==
    { [exists |-> FALSE, exports |-> {}], [exists |-> TRUE, exports |-> AllExports],
      [exists |-> TRUE, exports |-> AllExports \ {"memory"}],
      [exists |-> TRUE, exports |-> AllExports \ {"assemble_json"}] }

\* The state after the constructor, before any request.
InitServer ==
    /\ crash = 0
    /\ cur = 0
    /\ initialized = FALSE
    /\ wasmModule = 0
    /\ wasmInstance = 0
    /\ memory = 0
    /\ loads = [compile |-> 0, instantiate |-> 0]
    /\ eng = FreshEngine
    /\ pc = [r \in Requests |-> "idle"]
    /\ req = [r \in Requests |-> NoRequest]
    /\ file = [r \in Requests |-> NoFile]
    /\ bridge = [r \in Requests |-> NoBridge]
    /\ err = [r \in Requests |-> <<>>]
    /\ res = [r \in Requests |-> NoResponse]
    /\ calls = [r \in Requests |-> NoCalls]

(***************************************************************************)
(* handleRequest, up to its first await: URL, route, authentication.       *)
(***************************************************************************)
\* A task may take a step when the process lives and no other task holds the thread.
Runnable(r) == crash = 0 /\ cur \in {0, r}

\* The route test with the method forgotten.
RouteAcceptedAnyMethod(method, pathname) ==
    pathname = decompileEndpoint \/ pathname = assembleEndpoint

\* The request is a POST on one of the two endpoints.
RouteAccepted(method, pathname) ==
    ~(method # "POST" \/ (pathname # decompileEndpoint /\ pathname # assembleEndpoint))

\* res.writeHead throws ERR_HTTP_INVALID_HEADER_VALUE for a header whose value
\* is undefined.
WriteHeadThrows(value) == value = "undefined"

\* The first synchronous stretch of handleRequest: what it answers, or "upload"
\* when it reaches the upload middleware, or "rejected" when it throws outside
\* any try block.
EntryOutcome(in) ==
    IF ~in.url.valid THEN [pc |-> "done", res |-> JsonError(400, "Invalid URL")]
    ELSE IF ~RouteAccepted(in.method, in.url.pathname)
        THEN [pc |-> "done", res |-> JsonError(404, "Not found")]
    ELSE IF ~authenticate(in.headers) THEN
        IF WriteHeadThrows(WwwAuthenticate) THEN [pc |-> "rejected", res |-> NoResponse]
        ELSE [pc |-> "done",
              res |-> [JsonError(401, "Authentication required") EXCEPT !.wwwAuth = WwwAuthenticate]]
    ELSE [pc |-> "upload", res |-> NoResponse]

\* handleRequest is called for a new request.  A promise it rejects is awaited
\* by nobody: Node 15 and later end the process, Node 14 only warns and the
\* request is never answered.
HandleRequestEntry(r, in) ==
    /\ Runnable(r)
    /\ pc[r] = "idle"
    /\ req' = [req EXCEPT ![r] = in]
    /\ LET o == EntryOutcome(in) IN
        /\ pc' = [pc EXCEPT ![r] = o.pc]
        /\ res' = [res EXCEPT ![r] = o.res]
        /\ calls' = [calls EXCEPT ![r].answers = IF o.pc = "done" THEN @ + 1 ELSE @]
        /\ IF o.pc = "rejected" THEN crash' \in {0, r} ELSE crash' = crash
    /\ cur' = 0
    /\ UNCHANGED <<cli, page, cfg, wasmFile, initialized, wasmModule, wasmInstance, memory, loads,
                   eng, file, bridge, err>>

(***************************************************************************)
(* handleRequest after the upload middleware: validation and dispatch.     *)
(***************************************************************************)
\* buf.readUInt32BE(0), as its two 16-bit halves (the tool's integers are 32-bit signed).
ReadUInt32BE(buf) == <<buf[1] * 256 + buf[2], buf[3] * 256 + buf[4]>>

\* buf.readUInt32LE(0), the same way.
ReadUInt32LE(buf) == <<buf[4] * 256 + buf[3], buf[2] * 256 + buf[1]>>

\* 0xCAFEBABE as its two 16-bit halves, 0xCAFE and 0xBABE.
CafeBabe == <<51966, 47806>>

\* The class-file test with the magic read in the wrong byte order.
IsClassFileLittleEndian(classData) ==
    ~(Len(classData) < 4 \/ ReadUInt32LE(classData) # CafeBabe)

IsClassFile(classData) ==
    ~(Len(classData) < 4 \/ ReadUInt32BE(classData) # CafeBabe)

\* URLSearchParams.get(name): the value of the first pair with that name,
\* null (Undef) when there is none.
RECURSIVE Get(_, _)
Get(search, name) ==
    IF search = <<>> THEN Undef
    ELSE IF Head(search)[1] = name THEN Head(search)[2]
    ELSE Get(Tail(search), name)

\* The options parsed with the case of the value ignored.
ParseOptionsAnyCase(search) ==
    [roundtrip |-> ToLowerCase(Get(search, TxtRoundtrip)) = TxtTrue,
     noShortCodeAttr |-> ToLowerCase(Get(search, TxtNoShortCodeAttr)) = TxtTrue]

\* The decompilation options parsed from the query parameters.
ParseOptions(search) ==
    [roundtrip |-> Get(search, TxtRoundtrip) = TxtTrue,
     noShortCodeAttr |-> Get(search, TxtNoShortCodeAttr) = TxtTrue]

\* The request decompile() encodes for the engine.
DecompileRequest(fileName, options) ==
    [file_path |-> fileName, roundtrip |-> options.roundtrip,
     no_short_code_attr |-> options.noShortCodeAttr]

\* The request assemble() encodes for the engine (with the source text).
AssembleRequest(fileName) == [file_path |-> fileName]

\* The validation with the magic of a class file tested before its name.
ValidationOutcomeMagicFirst(isAssembleRequest, search, up) ==
    LET Answer(error) ==
            [pc |-> "done", res |-> JsonError(400, error), op |-> "", request |-> NoRequestJson]
    IN
    IF up.error THEN [pc |-> "threw", res |-> NoResponse, op |-> "", request |-> NoRequestJson]
    ELSE IF ~up.file.present THEN Answer("No file uploaded")
    ELSE IF isAssembleRequest THEN
        LET fileName == IF Truthy(up.file.originalname) THEN up.file.originalname ELSE NameInputJ IN
        IF ~EndsWith(fileName, ExtJ) THEN Answer("Assembly endpoint expects .j files")
        ELSE [pc |-> "call", res |-> NoResponse, op |-> "assemble",
              request |-> AssembleRequest(fileName)]
    ELSE
        LET fileName == IF Truthy(up.file.originalname) THEN up.file.originalname ELSE NameUnknownClass IN
        IF ~IsClassFile(up.file.buffer) THEN Answer("Invalid class file format")
        ELSE IF ~EndsWith(fileName, ExtClass) THEN Answer("Decompilation endpoint expects .class files")
        ELSE [pc |-> "call", res |-> NoResponse, op |-> "decompile",
              request |-> DecompileRequest(fileName, ParseOptions(search))]

\* What the code does between the upload and the bridge call: "threw" (the
\* middleware failed), a 400 answer, or "call" with the bridge function.
ValidationOutcome(isAssembleRequest, search, up) ==
    LET Answer(error) ==
            [pc |-> "done", res |-> JsonError(400, error), op |-> "", request |-> NoRequestJson]
    IN
    IF up.error THEN [pc |-> "threw", res |-> NoResponse, op |-> "", request |-> NoRequestJson]
    ELSE IF ~up.file.present THEN Answer("No file uploaded")
    ELSE IF isAssembleRequest THEN
        LET fileName == IF Truthy(up.file.originalname) THEN up.file.originalname ELSE NameInputJ IN
        IF ~EndsWith(fileName, ExtJ) THEN Answer("Assembly endpoint expects .j files")
        ELSE [pc |-> "call", res |-> NoResponse, op |-> "assemble",
              request |-> AssembleRequest(fileName)]
    ELSE
        LET fileName == IF Truthy(up.file.originalname) THEN up.file.originalname ELSE NameUnknownClass IN
        IF ~EndsWith(fileName, ExtClass) THEN Answer("Decompilation endpoint expects .class files")
        ELSE IF ~IsClassFile(up.file.buffer) THEN Answer("Invalid class file format")
        ELSE [pc |-> "call", res |-> NoResponse, op |-> "decompile",
              request |-> DecompileRequest(fileName, ParseOptions(search))]

\* "Failed to initialize Krakatau: " + message
InitError(message) == <<"Failed to initialize Krakatau: ", message>>

\* The upload middleware has run (it read the body), the file is validated
\* and decompile() or assemble() is called.  The call runs initialize() up to
\* its first await when the server is not initialized, and starts the
\* request cycle at once when it is.  (The request the bridge function
\* encodes depends on its arguments only; it is recorded here.)
Upload(r, up) ==
    /\ Runnable(r)
    /\ pc[r] = "upload"
    /\ LET v == ValidationOutcome(req[r].url.pathname = assembleEndpoint, req[r].url.search, up)
           load == v.pc = "call" /\ ~initialized
       IN
        /\ req' = [req EXCEPT ![r].body = up.body]
        /\ file' = [file EXCEPT ![r] = up.file]
        /\ res' = [res EXCEPT ![r] = v.res]
        /\ bridge' = [bridge EXCEPT ![r].op = v.op, ![r].request = v.request]
        /\ calls' = [calls EXCEPT ![r].multer = @ + 1,
                                  ![r].init = IF load THEN @ + 1 ELSE @,
                                  ![r].answers = IF v.pc = "done" THEN @ + 1 ELSE @]
        /\ pc' = [pc EXCEPT ![r] =
                    IF v.pc # "call" THEN v.pc
                    ELSE IF initialized THEN "alloc0"
                    ELSE IF ~wasmFile.exists THEN "threw"
                    ELSE "compiling"]
        /\ err' = [err EXCEPT ![r] =
                    IF v.pc = "threw" THEN <<"", "upload failed">>
                    ELSE IF load /\ ~wasmFile.exists THEN InitError("WASM file not found")
                    ELSE @]
        /\ loads' = [loads EXCEPT !.compile = IF load /\ wasmFile.exists THEN @ + 1 ELSE @]
        /\ cur' = IF v.pc = "call" /\ initialized THEN r ELSE 0
    /\ UNCHANGED <<cli, page, cfg, wasmFile, crash, initialized, wasmModule, wasmInstance, memory, eng>>

(***************************************************************************)
(* initialize(), after its awaits.                                         *)
(***************************************************************************)
\* The last name of requiredFunctions the build does not export ("" when none).
LastMissing(exports) ==
    LET missing == { i \in 1..Len(requiredFunctions) : requiredFunctions[i] \notin exports } IN
    IF missing = {} THEN ""
    ELSE requiredFunctions[CHOOSE i \in missing : \A j \in missing : i >= j]

\* The first name of requiredFunctions the build does not export ("" when none).
FirstMissing(exports) ==
    LET missing == { i \in 1..Len(requiredFunctions) : requiredFunctions[i] \notin exports } IN
    IF missing = {} THEN ""
    ELSE requiredFunctions[CHOOSE i \in missing : \A j \in missing : i <= j]

\* WebAssembly.compile has resolved: the module is stored and
\* WebAssembly.instantiate is called with it.
CompileDone(r) ==
    /\ Runnable(r)
    /\ pc[r] = "compiling"
    /\ wasmModule' = r
    /\ loads' = [loads EXCEPT !.instantiate = @ + 1]
    /\ pc' = [pc EXCEPT ![r] = "instantiating"]
    /\ cur' = 0
    /\ UNCHANGED <<cli, page, cfg, wasmFile, crash, initialized, wasmInstance, memory, eng, req, file,
                   bridge, err, res, calls>>

\* The same with initialized set as soon as the instance is stored, before
\* the checks.
InstantiateDoneSetsInitializedFirst(r) ==
    /\ Runnable(r)
    /\ pc[r] = "instantiating"
    /\ wasmInstance' = r
    /\ eng' = FreshEngine
    /\ memory' = IF "memory" \in wasmFile.exports THEN r ELSE memory
    /\ initialized' = TRUE
    /\ LET missing == FirstMissing(wasmFile.exports)
           failure ==
               IF memory' = 0 THEN InitError("WASM module does not export memory")
               ELSE IF missing # "" THEN InitError("Required function " \o missing \o " not found in WASM module")
               ELSE <<>>
       IN
        /\ err' = [err EXCEPT ![r] = failure]
        /\ pc' = [pc EXCEPT ![r] = IF failure = <<>> THEN "initDone" ELSE "threw"]
    /\ cur' = 0
    /\ UNCHANGED <<cli, page, cfg, wasmFile, crash, wasmModule, loads, req, file, bridge, res, calls>>

\* The same without the check of the required functions.
InstantiateDoneSkipsFunctionCheck(r) ==
    /\ Runnable(r)
    /\ pc[r] = "instantiating"
    /\ wasmInstance' = r
    /\ eng' = FreshEngine
    /\ memory' = IF "memory" \in wasmFile.exports THEN r ELSE memory
    /\ LET failure ==
               IF memory' = 0 THEN InitError("WASM module does not export memory") ELSE <<>>
       IN
        /\ initialized' = IF failure = <<>> THEN TRUE ELSE initialized
        /\ err' = [err EXCEPT ![r] = failure]
        /\ pc' = [pc EXCEPT ![r] = IF failure = <<>> THEN "initDone" ELSE "threw"]
    /\ cur' = 0
    /\ UNCHANGED <<cli, page, cfg, wasmFile, crash, wasmModule, loads, req, file, bridge, res, calls>>

\* WebAssembly.instantiate has resolved: the instance is stored, its memory
\* export is looked up, the required functions are checked and initialized
\* is set; any failure is rethrown as "Failed to initialize Krakatau: ...".
InstantiateDone(r) ==
    /\ Runnable(r)
    /\ pc[r] = "instantiating"
    /\ wasmInstance' = r
    /\ eng' = FreshEngine
    /\ memory' = IF "memory" \in wasmFile.exports THEN r ELSE memory
    /\ LET missing == FirstMissing(wasmFile.exports)
           failure ==
               IF memory' = 0 THEN InitError("WASM module does not export memory")
               ELSE IF missing # "" THEN InitError("Required function " \o missing \o " not found in WASM module")
               ELSE <<>>
       IN
        /\ initialized' = IF failure = <<>> THEN TRUE ELSE initialized
        /\ err' = [err EXCEPT ![r] = failure]
        /\ pc' = [pc EXCEPT ![r] = IF failure = <<>> THEN "initDone" ELSE "threw"]
    /\ cur' = 0
    /\ UNCHANGED <<cli, page, cfg, wasmFile, crash, wasmModule, loads, req, file, bridge, res, calls>>

\* initialize() without its first line: a call on an initialized server
\* starts another load.
InitializeAgainReloads(r) ==
    /\ Runnable(r)
    /\ pc[r] = "idle"
    /\ initialized
    /\ calls' = [calls EXCEPT ![r].init = @ + 1]
    /\ loads' = [loads EXCEPT !.compile = @ + 1]
    /\ pc' = [pc EXCEPT ![r] = "compiling"]
    /\ cur' = 0
    /\ UNCHANGED <<cli, page, cfg, wasmFile, crash, initialized, wasmModule, wasmInstance, memory,
                   eng, req, file, bridge, err, res>>

\* initialize() is called on a server that is initialized (by a caller other
\* than decompile() and assemble(), which test this.initialized themselves
\* and whose call on a server that is not initialized is part of Upload):
\* it returns at its first line.
InitializeAgain(r) ==
    /\ Runnable(r)
    /\ pc[r] = "idle"
    /\ initialized
    /\ calls' = [calls EXCEPT ![r].init = @ + 1]
    /\ pc' = [pc EXCEPT ![r] = "initReturned"]
    /\ cur' = 0
    /\ UNCHANGED <<cli, page, cfg, wasmFile, crash, initialized, wasmModule, wasmInstance, memory, loads,
                   eng, req, file, bridge, err, res>>

\* "await this.initialize()" returns in decompile() or assemble(): the
\* function goes on into its try block.
InitializeReturned(r) ==
    /\ Runnable(r)
    /\ pc[r] = "initDone"
    /\ pc' = [pc EXCEPT ![r] = "alloc0"]
    /\ cur' = r
    /\ UNCHANGED <<cli, page, cfg, wasmFile, crash, initialized, wasmModule, wasmInstance, memory, loads,
                   eng, req, file, bridge, err, res, calls>>

(***************************************************************************)
(* The request cycle of decompile() and assemble().                        *)
(***************************************************************************)
\* "Decompilation failed: " + message, "Assembly failed: " + message
BridgeError(r, message) ==
    <<IF bridge[r].op = "assemble" THEN "Assembly failed: " ELSE "Decompilation failed: ", message>>

\* The pc, err and cur of a cycle that throws: the catch block of the bridge
\* function rethrows and the function's promise is rejected.
Thrown(r, message) ==
    /\ pc' = [pc EXCEPT ![r] = "threw"]
    /\ err' = [err EXCEPT ![r] = BridgeError(r, message)]
    /\ cur' = 0

\* The pc, err and cur of a cycle that goes on to its next step.
Goes(r, next) ==
    /\ pc' = [pc EXCEPT ![r] = next]
    /\ err' = err
    /\ cur' = r

CountAlloc(n) == IF n < 2 THEN n + 1 ELSE n

\* The throwaway allocation, with the thread given up after it (as if awaited).
AllocThrowawayYields(r) ==
    /\ Runnable(r)
    /\ pc[r] = "alloc0"
    /\ eng' = [eng EXCEPT !.allocs = CountAlloc(@)]
    /\ calls' = [calls EXCEPT ![r].engine = @ + 1]
    /\ pc' = [pc EXCEPT ![r] = "alloc"]
    /\ cur' = 0
    /\ UNCHANGED <<cli, page, cfg, wasmFile, crash, initialized, wasmModule, wasmInstance, memory, loads,
                   req, file, bridge, err, res>>

\* The cycle without the throwaway allocation: it goes straight on to the
\* allocation for the payload.
AllocThrowawaySkipped(r) ==
    /\ Runnable(r)
    /\ pc[r] = "alloc0"
    /\ Goes(r, "alloc")
    /\ UNCHANGED <<cli, page, cfg, wasmFile, crash, initialized, wasmModule, wasmInstance, memory, loads,
                   eng, req, file, bridge, res, calls>>

\* allocate_input_buffer(10), result discarded.
AllocThrowaway(r) ==
    /\ Runnable(r)
    /\ pc[r] = "alloc0"
    /\ eng' = [eng EXCEPT !.allocs = CountAlloc(@)]
    /\ calls' = [calls EXCEPT ![r].engine = @ + 1]
    /\ Goes(r, "alloc")
    /\ UNCHANGED <<cli, page, cfg, wasmFile, crash, initialized, wasmModule, wasmInstance, memory, loads,
                   req, file, bridge, res>>

\* allocate_input_buffer(jsonBytes.length): 0 is a failure.
AllocInput(r, inputPtr) ==
    /\ Runnable(r)
    /\ pc[r] = "alloc"
    /\ eng' = [eng EXCEPT !.allocs = CountAlloc(@)]
    /\ calls' = [calls EXCEPT ![r].engine = @ + 1]
    /\ bridge' = [bridge EXCEPT ![r].inputPtr = inputPtr]
    /\ IF inputPtr = 0 THEN Thrown(r, "Failed to allocate WASM memory for input")
       ELSE Goes(r, "write")
    /\ UNCHANGED <<cli, page, cfg, wasmFile, crash, initialized, wasmModule, wasmInstance, memory, loads,
                   req, file, res>>

\* The copy of the request into engine memory, with the thread given up
\* after it (as if awaited).
WriteInputYields(r) ==
    /\ Runnable(r)
    /\ pc[r] = "write"
    /\ bridge' = [bridge EXCEPT ![r].wasmMemory = "fresh"]
    /\ eng' = [eng EXCEPT !.input = r, !.request = bridge[r].request]
    /\ pc' = [pc EXCEPT ![r] = "invoke"]
    /\ cur' = 0
    /\ UNCHANGED <<cli, page, cfg, wasmFile, crash, initialized, wasmModule, wasmInstance, memory, loads,
                   req, file, err, res, calls>>

\* The encoded request is copied into engine memory through a fresh view.
WriteInput(r) ==
    /\ Runnable(r)
    /\ pc[r] = "write"
    /\ bridge' = [bridge EXCEPT ![r].wasmMemory = "fresh"]
    /\ eng' = [eng EXCEPT !.input = r, !.request = bridge[r].request]
    /\ Goes(r, "invoke")
    /\ UNCHANGED <<cli, page, cfg, wasmFile, crash, initialized, wasmModule, wasmInstance, memory, loads,
                   req, file, res, calls>>

\* What an entry point can do: return a negative status, trap (the abort
\* import throws), or return after leaving a response in engine memory: a
\* success, a failure with or without an error text, or bytes that are no JSON.
ResponseKinds == {"ok", "fail", "failNoError", "malformed"}

EntryResults == {"negative", "trap"} \cup ResponseKinds

\* decompile_json(inputPtr, length) or assemble_json(inputPtr, length).
InvokeEntry(r, result) ==
    /\ Runnable(r)
    /\ pc[r] = "invoke"
    /\ calls' = [calls EXCEPT ![r].engine = @ + 1]
    /\ IF result = "negative" THEN
            /\ eng' = eng
            /\ bridge' = [bridge EXCEPT ![r].status = -1, ![r].wasmMemory = Stale(@)]
            /\ Thrown(r, IF bridge[r].op = "assemble"
                            THEN "WASM assemble_json function returned error"
                            ELSE "WASM decompile_json function returned error")
       ELSE IF result = "trap" THEN
            /\ eng' = eng
            /\ bridge' = [bridge EXCEPT ![r].wasmMemory = Stale(@)]
            /\ Thrown(r, "WASM abort")
       ELSE /\ eng' = [eng EXCEPT !.resp = result, !.respOf = eng.input]
            /\ bridge' = [bridge EXCEPT ![r].status = 0, ![r].wasmMemory = Stale(@)]
            /\ Goes(r, "len")
    /\ UNCHANGED <<cli, page, cfg, wasmFile, crash, initialized, wasmModule, wasmInstance, memory, loads,
                   req, file, res>>

\* get_response_length(): negative is a failure.
GetResponseLength(r, negative) ==
    /\ Runnable(r)
    /\ pc[r] = "len"
    /\ calls' = [calls EXCEPT ![r].engine = @ + 1]
    /\ bridge' = [bridge EXCEPT ![r].responseLength = IF negative THEN -1 ELSE 0]
    /\ IF negative THEN Thrown(r, "Failed to get response length from WASM")
       ELSE Goes(r, "ptr")
    /\ UNCHANGED <<cli, page, cfg, wasmFile, crash, initialized, wasmModule, wasmInstance, memory, loads,
                   eng, req, file, res>>

\* get_response_ptr() with its result not tested: the cycle goes on to read
\* engine memory at whatever address came back.
GetResponsePtrUnchecked(r, responsePtr) ==
    /\ Runnable(r)
    /\ pc[r] = "ptr"
    /\ calls' = [calls EXCEPT ![r].engine = @ + 1]
    /\ bridge' = [bridge EXCEPT ![r].responsePtr = responsePtr]
    /\ Goes(r, "copy")
    /\ UNCHANGED <<cli, page, cfg, wasmFile, crash, initialized, wasmModule, wasmInstance, memory, loads,
                   eng, req, file, res>>

\* get_response_ptr(): 0 is a failure.
GetResponsePtr(r, responsePtr) ==
    /\ Runnable(r)
    /\ pc[r] = "ptr"
    /\ calls' = [calls EXCEPT ![r].engine = @ + 1]
    /\ bridge' = [bridge EXCEPT ![r].responsePtr = responsePtr]
    /\ IF responsePtr = 0 THEN Thrown(r, "Failed to get response pointer from WASM")
       ELSE Goes(r, "copy")
    /\ UNCHANGED <<cli, page, cfg, wasmFile, crash, initialized, wasmModule, wasmInstance, memory, loads,
                   eng, req, file, res>>

\* The response taken as a view of engine memory (subarray) and not copied.
CopyOutKeepsView(r) ==
    /\ Runnable(r)
    /\ pc[r] = "copy"
    /\ bridge' = [bridge EXCEPT ![r].bytes = eng.resp, ![r].result = eng.respOf,
                                ![r].responseMemory = "fresh", ![r].readView = "responseMemory"]
    /\ Goes(r, "parse")
    /\ UNCHANGED <<cli, page, cfg, wasmFile, crash, initialized, wasmModule, wasmInstance, memory, loads,
                   eng, req, file, res, calls>>

\* The response sliced through the view the request was written through,
\* made before the entry point was called: when that call grew the memory
\* the view is detached and the slice is empty.
CopyOutThroughCachedView(r) ==
    /\ Runnable(r)
    /\ pc[r] = "copy"
    /\ \E detached \in BOOLEAN :
        bridge' = [bridge EXCEPT ![r].copied = TRUE,
                                 ![r].bytes = IF detached THEN "malformed" ELSE eng.resp,
                                 ![r].result = eng.respOf,
                                 ![r].readView = "wasmMemory"]
    /\ Goes(r, "parse")
    /\ UNCHANGED <<cli, page, cfg, wasmFile, crash, initialized, wasmModule, wasmInstance, memory, loads,
                   eng, req, file, res, calls>>

\* The response bytes are sliced out of engine memory through a fresh view.
CopyOut(r) ==
    /\ Runnable(r)
    /\ pc[r] = "copy"
    /\ bridge' = [bridge EXCEPT ![r].copied = TRUE, ![r].bytes = eng.resp, ![r].result = eng.respOf,
                                ![r].responseMemory = "fresh", ![r].readView = "responseMemory"]
    /\ Goes(r, "parse")
    /\ UNCHANGED <<cli, page, cfg, wasmFile, crash, initialized, wasmModule, wasmInstance, memory, loads,
                   eng, req, file, res, calls>>

\* The object JSON.parse makes of the response bytes: success, the output
\* (the text made from the payload of request of) and the error text ("" when
\* the response has none).
Decoded(bytes, of) ==
    IF bytes = "ok" THEN [success |-> TRUE, output |-> of, error |-> ""]
    ELSE IF bytes = "fail" THEN [success |-> FALSE, output |-> 0, error |-> "engine error text"]
    ELSE [success |-> FALSE, output |-> 0, error |-> ""]

\* TextDecoder.decode and JSON.parse: bytes that are no JSON throw a SyntaxError.
ParseResponse(r) ==
    /\ Runnable(r)
    /\ pc[r] = "parse"
    /\ IF bridge[r].bytes \in {"ok", "fail", "failNoError"} THEN
            /\ bridge' = [bridge EXCEPT ![r].response = Decoded(bridge[r].bytes, bridge[r].result)]
            /\ Goes(r, "free")
       ELSE /\ bridge' = bridge
            /\ Thrown(r, "Unexpected token in JSON")
    /\ UNCHANGED <<cli, page, cfg, wasmFile, crash, initialized, wasmModule, wasmInstance, memory, loads,
                   eng, req, file, res, calls>>

\* free_response().
FreeResponse(r) ==
    /\ Runnable(r)
    /\ pc[r] = "free"
    /\ eng' = [eng EXCEPT !.resp = "", !.respOf = 0]
    /\ bridge' = [bridge EXCEPT ![r].responseMemory = Stale(@)]
    /\ calls' = [calls EXCEPT ![r].engine = @ + 1, ![r].free = @ + 1]
    /\ Goes(r, "check")
    /\ UNCHANGED <<cli, page, cfg, wasmFile, crash, initialized, wasmModule, wasmInstance, memory, loads,
                   req, file, res>>

\* response.error || 'Unknown ... error'
ErrorText(op, response) ==
    IF response.error # "" THEN response.error
    ELSE IF op = "assemble" THEN "Unknown assembly error"
    ELSE "Unknown decompilation error"

\* What the bridge function returns: response.output (decompile) or the
\* response (assemble).
ReturnValue(op, response) ==
    IF op = "assemble" THEN [NoValue EXCEPT !.type = "object", !.members = response]
    ELSE [NoValue EXCEPT !.type = "string", !.text = response.output]

\* The bridge function without the success test: it returns whatever the
\* engine answered.
CheckSuccessReturnsFailure(r) ==
    /\ Runnable(r)
    /\ pc[r] = "check"
    /\ bridge' = [bridge EXCEPT ![r].value = ReturnValue(bridge[r].op, bridge[r].response)]
    /\ pc' = [pc EXCEPT ![r] = "returned"]
    /\ err' = err
    /\ cur' = 0
    /\ UNCHANGED <<cli, page, cfg, wasmFile, crash, initialized, wasmModule, wasmInstance, memory, loads,
                   eng, req, file, res, calls>>

\* The success test: a failure throws the response's error text or a generic
\* message; a success returns (the promise of the bridge function resolves).
CheckSuccess(r) ==
    /\ Runnable(r)
    /\ pc[r] = "check"
    /\ IF bridge[r].response.success THEN
            /\ bridge' = [bridge EXCEPT ![r].value = ReturnValue(bridge[r].op, bridge[r].response)]
            /\ pc' = [pc EXCEPT ![r] = "returned"]
            /\ err' = err
            /\ cur' = 0
       ELSE /\ bridge' = bridge
            /\ Thrown(r, ErrorText(bridge[r].op, bridge[r].response))
    /\ UNCHANGED <<cli, page, cfg, wasmFile, crash, initialized, wasmModule, wasmInstance, memory, loads,
                   eng, req, file, res, calls>>

(***************************************************************************)
(* handleRequest after the bridge call.                                    *)
(***************************************************************************)
\* The bridge call returned: 200 with the output as text (decompile) or the
\* result as JSON (assemble), and the cross-origin header.
RespondOk(r) ==
    /\ Runnable(r)
    /\ pc[r] = "returned"
    /\ res' = [res EXCEPT ![r] =
                [NoResponse EXCEPT !.status = 200,
                                   !.ctype = IF bridge[r].op = "assemble" THEN "application/json"
                                             ELSE "text/plain; charset=utf-8",
                                   !.output = IF bridge[r].op = "assemble"
                                              THEN bridge[r].value.members.output
                                              ELSE bridge[r].value.text,
                                   !.cors = TRUE]]
    /\ calls' = [calls EXCEPT ![r].answers = @ + 1]
    /\ pc' = [pc EXCEPT ![r] = "done"]
    /\ cur' = 0
    /\ UNCHANGED <<cli, page, cfg, wasmFile, crash, initialized, wasmModule, wasmInstance, memory, loads,
                   eng, req, file, bridge, err>>

\* The catch block of handleRequest with the error thrown on (nobody awaits
\* the promise of handleRequest).
HandleCatchRethrows(r) ==
    /\ Runnable(r)
    /\ pc[r] = "threw"
    /\ pc' = [pc EXCEPT ![r] = "rejected"]
    /\ crash' = r
    /\ cur' = 0
    /\ UNCHANGED <<cli, page, cfg, wasmFile, initialized, wasmModule, wasmInstance, memory, loads,
                   eng, req, file, bridge, err, res, calls>>

\* The catch block of handleRequest: 500 with {error, message}.
HandleCatch(r) ==
    /\ Runnable(r)
    /\ pc[r] = "threw"
    /\ res' = [res EXCEPT ![r] =
                [JsonError(500, "Internal server error") EXCEPT !.message = err[r]]]
    /\ calls' = [calls EXCEPT ![r].answers = @ + 1]
    /\ pc' = [pc EXCEPT ![r] = "done"]
    /\ cur' = 0
    /\ UNCHANGED <<cli, page, cfg, wasmFile, crash, initialized, wasmModule, wasmInstance, memory, loads,
                   eng, req, file, bridge, err>>

(***************************************************************************)
(* run.js, the command line tool.                                          *)
(***************************************************************************)
\* A build of krak2.wasm for the tool: whether the file exists, whether its
\* bytes compile, and what it exports.
BuildOf(exists, valid, exports) == [exists |-> exists, valid |-> valid, exports |-> exports]

\* A run: its inputs (argv: whether an argument was given; classFile:
\* "missing", "file" or "directory"; build), where it stands, what the engine
\* left as its response, the bytes copied out, whether the output was
\* printed, how often free_response was called, and the exit code (-1 while
\* the process runs).
RunOf(argv, classFile, build) ==
    [argv |-> argv, classFile |-> classFile, build |-> build, pc |-> "start",
     resp |-> "", bytes |-> "", printed |-> FALSE, free |-> 0, exit |-> -1]

\* No run (the variable in the models of the server and of the page).
NoRun == [RunOf(FALSE, "missing", BuildOf(FALSE, FALSE, {})) EXCEPT !.pc = "none"]

RunBuilds ==
    { BuildOf(FALSE, FALSE, {}), BuildOf(TRUE, FALSE, {}), BuildOf(TRUE, TRUE, AllExports) }
    \cup { BuildOf(TRUE, TRUE, AllExports \ {e}) :
             e \in {"memory", "allocate_input_buffer", "decompile_json",
                    "get_response_length", "free_response"} }

RunInputs ==
    { RunOf(argv, classFile, build) :
        argv \in BOOLEAN, classFile \in {"missing", "file", "directory"}, build \in RunBuilds }

\* process.exit(code), or the end of the process when nothing is left to run.
Exit(code) == cli' = [cli EXCEPT !.pc = "exited", !.exit = code]

RunGoes(next) == cli' = [cli EXCEPT !.pc = next]

\* run() up to its first await: the argument and the two files are checked,
\* the files are read and WebAssembly.compile is called.
RunStart ==
    /\ cli.pc = "start"
    /\ IF ~cli.argv THEN Exit(1)
       ELSE IF cli.classFile = "missing" THEN Exit(1)
       ELSE IF ~cli.build.exists THEN Exit(1)
       ELSE IF cli.classFile = "directory" THEN Exit(1)
       ELSE RunGoes("compiling")
    /\ UNCHANGED <<page, serverVars>>

\* WebAssembly.compile has settled: rejected for bytes that are no module,
\* else WebAssembly.instantiate is called.
RunCompileDone ==
    /\ cli.pc = "compiling"
    /\ IF ~cli.build.valid THEN Exit(1) ELSE RunGoes("instantiating")
    /\ UNCHANGED <<page, serverVars>>

\* WebAssembly.instantiate has resolved: the memory export is looked up, the
\* request is encoded, and the throwaway allocation is made when
\* allocate_input_buffer is exported.
RunInstantiateDone ==
    /\ cli.pc = "instantiating"
    /\ IF "memory" \notin cli.build.exports THEN Exit(1)
       ELSE IF "allocate_input_buffer" \notin cli.build.exports THEN Exit(1)
       ELSE RunGoes("alloc")
    /\ UNCHANGED <<page, serverVars>>

\* allocate_input_buffer(jsonBytes.length): 0 is a failure; else the request
\* is copied into engine memory.
RunAllocInput(inputPtr) ==
    /\ cli.pc = "alloc"
    /\ IF inputPtr = 0 THEN Exit(1) ELSE RunGoes("invoke")
    /\ UNCHANGED <<page, serverVars>>

\* decompile_json(inputPtr, length), when it is exported.
RunInvoke(result) ==
    /\ cli.pc = "invoke"
    /\ IF "decompile_json" \notin cli.build.exports THEN Exit(1)
       ELSE IF result \in {"negative", "trap"} THEN Exit(1)
       ELSE cli' = [cli EXCEPT !.pc = "len", !.resp = result]
    /\ UNCHANGED <<page, serverVars>>

\* get_response_length() and get_response_ptr(): calling an export that is
\* missing throws a TypeError; a negative length and a null pointer are
\* failures; else the response bytes are sliced out of engine memory.
RunReadResponse(negative, responsePtr) ==
    /\ cli.pc = "len"
    /\ IF "get_response_length" \notin cli.build.exports THEN Exit(1)
       ELSE IF negative THEN Exit(1)
       ELSE IF responsePtr = 0 THEN Exit(1)
       ELSE cli' = [cli EXCEPT !.pc = "parse", !.bytes = cli.resp]
    /\ UNCHANGED <<page, serverVars>>

\* The report with a failure reported on standard error and the run going on.
RunReportGoesOnAfterFailure ==
    /\ cli.pc = "parse"
    /\ IF cli.bytes = "malformed" THEN Exit(1)
       ELSE IF cli.bytes = "ok" THEN cli' = [cli EXCEPT !.pc = "free", !.printed = TRUE]
       ELSE RunGoes("free")
    /\ UNCHANGED <<page, serverVars>>

\* JSON.parse (a SyntaxError for bytes that are no JSON) and the report: the
\* output on standard output, or the error on standard error and exit(1).
RunReport ==
    /\ cli.pc = "parse"
    /\ IF cli.bytes = "malformed" THEN Exit(1)
       ELSE IF cli.bytes = "ok" THEN cli' = [cli EXCEPT !.pc = "free", !.printed = TRUE]
       ELSE Exit(1)
    /\ UNCHANGED <<page, serverVars>>

\* free_response(): a TypeError when it is not exported, or a trap, end in
\* the catch block; else run() returns and the process ends with code 0.
RunFree(traps) ==
    /\ cli.pc = "free"
    /\ IF "free_response" \notin cli.build.exports THEN Exit(1)
       ELSE IF traps THEN cli' = [cli EXCEPT !.pc = "exited", !.exit = 1, !.free = @ + 1]
       ELSE cli' = [cli EXCEPT !.pc = "exited", !.exit = 0, !.free = @ + 1, !.resp = ""]
    /\ UNCHANGED <<page, serverVars>>

(***************************************************************************)
(* KrakatauDecompiler, the bridge of the browser pages (part_001 and       *)
(* part_002).                                                              *)
(***************************************************************************)
\* How many times the page calls decompile().
MaxPageCalls == 2

\* A decompiler after its constructor, in a page of the given variant, with
\* what the page will meet: whether fetch('krak2.wasm') answers ok, whether
\* the bytes compile, whether the module instantiates, what it exports.
\* result is what the last decompile() call gave its caller: "output" (the
\* engine's output), "error" (a rejection), "simulated" (the text of
\* _simulateDecompilation); outcome is what the engine did in that call's
\* cycle ("": no cycle ran).  op is the function the page called last,
\* message the message of the Error it was rejected with, cycles the number
\* of calls that reached the engine (that called an engine export).
PageOf(variant, fetchOk, valid, instantiates, exports) ==
    [variant |-> variant, fetchOk |-> fetchOk, valid |-> valid, instantiates |-> instantiates,
     exports |-> exports, pc |-> "idle", initialized |-> FALSE, useFallback |-> FALSE,
     wasmModule |-> FALSE, wasmInstance |-> FALSE, callsMade |-> 0, fetches |-> 0,
     outcome |-> "", result |-> "", op |-> "", message |-> "", cycles |-> 0]

\* No page (the variable in the models of the server and of the tool).
NoPage == [PageOf("none", FALSE, FALSE, FALSE, {}) EXCEPT !.pc = "none"]

Pages ==
    { PageOf(variant, fetchOk, valid, instantiates, exports) :
        variant \in {"part_001", "part_002"}, fetchOk \in BOOLEAN, valid \in BOOLEAN,
        instantiates \in BOOLEAN,
        exports \in {AllExports, AllExports \ {"memory"}, AllExports \ {"decompile_json"}} }

\* What a request cycle can come to: the engine's answer at the step that
\* fails, or "ok".
CycleOutcomes ==
    {"allocation failed", "negative", "trap", "negative length", "null pointer",
     "malformed", "fail", "failNoError", "ok"}

\* The messages of the Errors the calls are rejected with.
MsgInit == "Failed to initialize Krakatau"

MsgUnavailable == "WASM module not available. Please ensure krak2.wasm is properly loaded."

MsgCycle(op) == IF op = "assemble" THEN "WASM assembly failed: " ELSE "WASM decompilation failed: "

\* The message of a result: a call that is not rejected has none.
MessageOf(result, outcome) ==
    IF result # "error" THEN ""
    ELSE IF outcome # "" THEN MsgCycle(page.op)
    ELSE IF page.initialized THEN MsgUnavailable
    ELSE MsgInit

\* The engine was called in a cycle unless the export check stopped it.
ReachedEngine(outcome) == outcome \notin {"", "missing export"}

\* decompile() or assemble() settles: its promise resolves with the result
\* or rejects.
Settles(result, outcome) ==
    page' = [page EXCEPT !.pc = "settled", !.result = result, !.outcome = outcome,
                         !.message = MessageOf(result, outcome),
                         !.cycles = IF ReachedEngine(outcome) THEN @ + 1 ELSE @]

\* decompile() is called: initialize() up to its first await (the fetch) when
\* the decompiler is not initialized, else straight to the cycle.
PageDecompile ==
    /\ page.pc \in {"idle", "settled"}
    /\ page.callsMade < MaxPageCalls
    /\ page' = [page EXCEPT !.callsMade = @ + 1,
                            !.op = "decompile",
                            !.pc = IF page.initialized THEN "ready" ELSE "fetching",
                            !.fetches = IF page.initialized THEN @ ELSE @ + 1,
                            !.result = "", !.outcome = "", !.message = ""]
    /\ UNCHANGED <<cli, serverVars>>

\* assemble() is called (part_001 has it, part_002 has not): the same start.
PageAssemble ==
    /\ page.variant = "part_001"
    /\ page.pc \in {"idle", "settled"}
    /\ page.callsMade < MaxPageCalls
    /\ page' = [page EXCEPT !.callsMade = @ + 1,
                            !.op = "assemble",
                            !.pc = IF page.initialized THEN "ready" ELSE "fetching",
                            !.fetches = IF page.initialized THEN @ ELSE @ + 1,
                            !.result = "", !.outcome = "", !.message = ""]
    /\ UNCHANGED <<cli, serverVars>>

\* fetch has resolved: a response that is not ok is rethrown as "Failed to
\* initialize Krakatau" and rejects decompile() (the await of initialize is
\* outside its try block); else the bytes are read and compiled.
PageFetchDone ==
    /\ page.pc = "fetching"
    /\ IF ~page.fetchOk THEN Settles("error", "")
       ELSE page' = [page EXCEPT !.pc = "compiling"]
    /\ UNCHANGED <<cli, serverVars>>

\* WebAssembly.compile has settled: a rejection is rethrown the same way;
\* else the module is stored and instantiated.
PageCompileDone ==
    /\ page.pc = "compiling"
    /\ IF ~page.valid THEN Settles("error", "")
       ELSE page' = [page EXCEPT !.pc = "instantiating", !.wasmModule = TRUE]
    /\ UNCHANGED <<cli, serverVars>>

\* The same with initialized left false when the instantiation fails.
PageInstantiateDoneLeavesUninitialized ==
    /\ page.pc = "instantiating"
    /\ page' = [page EXCEPT !.pc = "ready", !.initialized = page.instantiates,
                            !.wasmInstance = page.instantiates,
                            !.useFallback = ~page.instantiates]
    /\ UNCHANGED <<cli, serverVars>>

\* WebAssembly.instantiate has settled: a rejection is caught and sets
\* useFallback; initialized is set either way and initialize() returns.
PageInstantiateDone ==
    /\ page.pc = "instantiating"
    /\ page' = [page EXCEPT !.pc = "ready", !.initialized = TRUE,
                            !.wasmInstance = page.instantiates,
                            !.useFallback = ~page.instantiates]
    /\ UNCHANGED <<cli, serverVars>>

\* The exports decompile() checks before its cycle.
PageRequired ==
    {"allocate_input_buffer", "decompile_json", "get_response_length", "get_response_ptr",
     "free_response"}

\* The exports assemble() checks before its cycle.
PageRequiredAssemble ==
    {"allocate_input_buffer", "assemble_json", "get_response_length", "get_response_ptr",
     "free_response"}

\* What decompile() gives its caller when it cannot complete a cycle.
OnFailure(variant) == IF variant = "part_002" THEN "simulated" ELSE "error"

\* The rest of decompile(), which has no await: without an instance the call
\* fails (part_001) or simulates (part_002); with one, the exports are
\* checked and the cycle runs; whatever is thrown in it is rethrown
\* (part_001) or replaced by the simulation (part_002).
PageCycle(outcome) ==
    /\ page.pc = "ready"
    /\ IF page.useFallback \/ ~page.wasmInstance THEN Settles(OnFailure(page.variant), "")
       ELSE IF ~((IF page.op = "assemble" THEN PageRequiredAssemble ELSE PageRequired)
                    \subseteq page.exports)
            THEN Settles(OnFailure(page.variant), "missing export")
       ELSE IF outcome = "ok" THEN Settles("output", outcome)
       ELSE Settles(OnFailure(page.variant), outcome)
    /\ UNCHANGED <<cli, serverVars>>

(***************************************************************************)
(* The specifications.                                                     *)
(***************************************************************************)
NoAuthConfig ==
    [authUser |-> Undef, authPassword |-> Undef, authTokenHeader |-> Undef, authTokenValue |-> Undef]

CompleteBuild == [exists |-> TRUE, exports |-> AllExports]

\* Concurrent requests: NumReq valid uploads to the two endpoints, in flight
\* together, against a complete build, a build without memory or a build
\* without assemble_json; the engine may fail an allocation, trap, or answer
\* with bytes that are no JSON.
ConcurrentInputs ==
    [method : {"POST"},
     url : { [valid |-> TRUE, pathname |-> p, search |-> <<>>] :
                p \in {decompileEndpoint, assembleEndpoint} },
     headers : {<<>>}, body : {Unread}]

\* The upload of a valid request to the endpoint: A.j for the assemble
\* endpoint, A.class for the decompile endpoint.
ConcurrentUploads(pathname) ==
    { UploadSingle(BodyOf("multipart", TxtFile,
                          IF pathname = assembleEndpoint THEN NameAJ ELSE NameAClass,
                          MagicBytes \o <<0>>)) }

Init ==
    /\ cfg = NoAuthConfig
    /\ wasmFile \in {CompleteBuild, [exists |-> TRUE, exports |-> AllExports \ {"memory"}],
                      [exists |-> TRUE, exports |-> AllExports \ {"assemble_json"}]}
    /\ InitServer
    /\ cli = NoRun
    /\ page = NoPage

Next ==
    \E r \in Requests :
        \/ \E in \in ConcurrentInputs : HandleRequestEntry(r, in)
        \/ \E up \in ConcurrentUploads(req[r].url.pathname) : Upload(r, up)
        \/ CompileDone(r)
        \/ InstantiateDone(r)
        \/ InitializeReturned(r)
        \/ AllocThrowaway(r)
        \/ \E inputPtr \in {0, 1024} : AllocInput(r, inputPtr)
        \/ WriteInput(r)
        \/ \E result \in {"ok", "malformed", "trap"} : InvokeEntry(r, result)
        \/ GetResponseLength(r, FALSE)
        \/ GetResponsePtr(r, 2048)
        \/ CopyOut(r)
        \/ ParseResponse(r)
        \/ FreeResponse(r)
        \/ CheckSuccess(r)
        \/ RespondOk(r)
        \/ HandleCatch(r)

Spec == Init /\ [][Next]_vars

\* One request, with every input and every answer of the engine.
InitRequest ==
    /\ cfg \in MainConfigs
    /\ wasmFile \in WasmBuilds
    /\ InitServer
    /\ cli = NoRun
    /\ page = NoPage

NextRequest ==
    \/ \E in \in MainInputs(cfg) : HandleRequestEntry(1, in)
    \/ \E up \in Uploads : Upload(1, up)
    \/ CompileDone(1)
    \/ InstantiateDone(1)
    \/ InitializeReturned(1)
    \/ AllocThrowaway(1)
    \/ \E inputPtr \in {0, 1024} : AllocInput(1, inputPtr)
    \/ WriteInput(1)
    \/ \E result \in EntryResults : InvokeEntry(1, result)
    \/ \E negative \in BOOLEAN : GetResponseLength(1, negative)
    \/ \E responsePtr \in {0, 2048} : GetResponsePtr(1, responsePtr)
    \/ CopyOut(1)
    \/ ParseResponse(1)
    \/ FreeResponse(1)
    \/ CheckSuccess(1)
    \/ RespondOk(1)
    \/ HandleCatch(1)

SpecRequest == InitRequest /\ [][NextRequest]_vars

\* One request up to the end of authentication, with every environment and
\* every combination of credentials.
InitAuth ==
    /\ cfg \in AuthConfigs
    /\ wasmFile = CompleteBuild
    /\ InitServer
    /\ cli = NoRun
    /\ page = NoPage

NextAuth == \E in \in AuthInputs : HandleRequestEntry(1, in)

SpecAuth == InitAuth /\ [][NextAuth]_vars

\* The same, for the environments in which AUTH_USER is set to a non-empty
\* value and AUTH_PASSWORD is set.
InitBasicAuth ==
    /\ cfg \in { c \in AuthConfigs : Truthy(c.authUser) /\ c.authPassword # Undef }
    /\ wasmFile = CompleteBuild
    /\ InitServer
    /\ cli = NoRun
    /\ page = NoPage

SpecBasicAuth == InitBasicAuth /\ [][NextAuth]_vars

\* Concurrent valid requests against a complete build whose engine answers
\* every call (so that no step throws).  The event loop runs every
\* continuation that is ready: the steps of every request are weakly fair.
NextServed ==
    \E r \in Requests :
        \/ \E in \in ConcurrentInputs : HandleRequestEntry(r, in)
        \/ \E up \in ConcurrentUploads(req[r].url.pathname) : Upload(r, up)
        \/ CompileDone(r)
        \/ InstantiateDone(r)
        \/ InitializeReturned(r)
        \/ AllocThrowaway(r)
        \/ AllocInput(r, 1024)
        \/ WriteInput(r)
        \/ InvokeEntry(r, "ok")
        \/ GetResponseLength(r, FALSE)
        \/ GetResponsePtr(r, 2048)
        \/ CopyOut(r)
        \/ ParseResponse(r)
        \/ FreeResponse(r)
        \/ CheckSuccess(r)
        \/ RespondOk(r)
        \/ InitializeAgain(r)

\* The steps of request r after handleRequest was entered for it.
Continue(r) ==
    \/ \E up \in ConcurrentUploads(req[r].url.pathname) : Upload(r, up)
    \/ CompileDone(r)
    \/ InstantiateDone(r)
    \/ InitializeReturned(r)
    \/ AllocThrowaway(r)
    \/ AllocInput(r, 1024)
    \/ WriteInput(r)
    \/ InvokeEntry(r, "ok")
    \/ GetResponseLength(r, FALSE)
    \/ GetResponsePtr(r, 2048)
    \/ CopyOut(r)
    \/ ParseResponse(r)
    \/ FreeResponse(r)
    \/ CheckSuccess(r)
    \/ RespondOk(r)

InitServed ==
    /\ cfg = NoAuthConfig
    /\ wasmFile = CompleteBuild
    /\ InitServer
    /\ cli = NoRun
    /\ page = NoPage

SpecServed == InitServed /\ [][NextServed]_vars /\ \A r \in Requests : WF_vars(Continue(r))

\* Builds of krak2.wasm that do not load: absent, without memory, without
\* one or several of the required functions.
FailingBuilds ==
    { [exists |-> FALSE, exports |-> {}] } \cup
    { [exists |-> TRUE, exports |-> AllExports \ absent] :
        absent \in { {"memory"}, {"memory", "allocate_input_buffer"}, {"assemble_json"},
                     {"decompile_json", "free_response"},
                     {"allocate_input_buffer", "get_response_ptr"},
                     {"get_response_length", "get_response_ptr", "free_response"},
                     {"free_response"} } }

\* Requests, one after another or together, to a server whose build does not
\* load: every bridge call runs initialize(), which fails.
InitLoad ==
    /\ cfg = NoAuthConfig
    /\ wasmFile \in FailingBuilds
    /\ InitServer
    /\ cli = NoRun
    /\ page = NoPage

NextLoad ==
    \E r \in Requests :
        \/ \E in \in ConcurrentInputs : HandleRequestEntry(r, in)
        \/ \E up \in ConcurrentUploads(req[r].url.pathname) : Upload(r, up)
        \/ CompileDone(r)
        \/ InstantiateDone(r)
        \/ HandleCatch(r)

SpecLoad == InitLoad /\ [][NextLoad]_vars

\* One run of the command line tool, with every input and every answer of
\* the engine.
InitRun ==
    /\ cli \in RunInputs
    /\ page = NoPage
    /\ cfg = NoAuthConfig
    /\ wasmFile = CompleteBuild
    /\ InitServer

NextRun ==
    \/ RunStart
    \/ RunCompileDone
    \/ RunInstantiateDone
    \/ \E inputPtr \in {0, 1024} : RunAllocInput(inputPtr)
    \/ \E result \in EntryResults : RunInvoke(result)
    \/ \E negative \in BOOLEAN, responsePtr \in {0, 2048} : RunReadResponse(negative, responsePtr)
    \/ RunReport
    \/ \E traps \in BOOLEAN : RunFree(traps)

SpecRun == InitRun /\ [][NextRun]_vars

\* One decompiler in a browser page, called MaxPageCalls times.
InitPage ==
    /\ page \in Pages
    /\ cli = NoRun
    /\ cfg = NoAuthConfig
    /\ wasmFile = CompleteBuild
    /\ InitServer

NextPage ==
    \/ PageDecompile
    \/ PageAssemble
    \/ PageFetchDone
    \/ PageCompileDone
    \/ PageInstantiateDone
    \/ \E outcome \in CycleOutcomes : PageCycle(outcome)

SpecPage == InitPage /\ [][NextPage]_vars

(***************************************************************************)
(* Properties.                                                             *)
(***************************************************************************)
\* A request cycle is in flight on the engine from the return of the throwaway
\* allocate_input_buffer call until free_response is called or the cycle throws.
InCycle(r) == pc[r] \in {"alloc", "write", "invoke", "len", "ptr", "copy", "parse", "free"}

\* C1: at most one request cycle is in flight on the engine at any instant,
\* and while it is in flight its request holds the thread, so no engine call
\* or memory access of another cycle comes between its steps.
C1_OneCycleInFlight ==
    \A r \in Requests :
        InCycle(r) => cur = r /\ \A other \in Requests \ {r} : ~InCycle(other)

\* A cycle is in flight while another request, whose load has finished, waits
\* to start its own.
C1_Witness ==
    \E r, other \in Requests :
        /\ r # other
        /\ InCycle(r)
        /\ pc[other] = "initDone"

\* C2: among callers that find the server not initialized, one performs the
\* load and the others wait for it: never two loads in flight, and one
\* compile and one instantiate in all when the build loads.
C2_OneLoad ==
    /\ Cardinality({ r \in Requests : pc[r] \in {"compiling", "instantiating"} }) <= 1
    /\ wasmFile = CompleteBuild => loads.compile <= 1 /\ loads.instantiate <= 1

\* The payload is shorter than four bytes or does not start with CA FE BA BE.
BadMagic(buffer) == Len(buffer) < 4 \/ SubSeq(buffer, 1, 4) # MagicBytes

\* C3: a decompile request whose uploaded payload is shorter than four bytes
\* or does not start with 0xCAFEBABE is answered 400, and neither initialize
\* nor any engine export is called for it.
C3_BadMagicRejected ==
    \A r \in Requests :
        (req[r].url.pathname = decompileEndpoint /\ file[r].present /\ BadMagic(file[r].buffer))
        => /\ pc[r] = "done"
           /\ res[r].status = 400
           /\ calls[r].init = 0
           /\ calls[r].engine = 0

\* A four-byte payload with a .class name and the wrong magic was answered
\* "Invalid class file format".
C3_Witness ==
    \E r \in Requests :
        /\ req[r].url.pathname = decompileEndpoint
        /\ file[r].present
        /\ file[r].originalname = NameAClass
        /\ Len(file[r].buffer) = 4
        /\ BadMagic(file[r].buffer)
        /\ res[r].status = 400
        /\ res[r].error = "Invalid class file format"

\* The bridge call of the request has ended, by a return or by an error.
CycleEnded(r) == pc[r] \in {"threw", "returned", "done", "rejected"}

\* C4: a cycle that reached the copy-out of the response bytes has called
\* free_response exactly once when it ends, also when the bytes are no JSON
\* and when the response says success = false.
C4_FreedExactlyOnce ==
    \A r \in Requests : (bridge[r].copied /\ CycleEnded(r)) => calls[r].free = 1

\* The bridge call of the request raised an error: initialize() or the catch
\* block of decompile()/assemble() threw.
BridgeRaised(r) == err[r] # <<>> /\ err[r][1] # ""

\* C5: a request whose bridge call raised an error is answered 500 with a
\* JSON body holding error and message, and the process does not end.
C5_BridgeErrorsAnswered ==
    \A r \in Requests :
        BridgeRaised(r)
        => /\ crash = 0
           /\ pc[r] \in {"threw", "done"}
           /\ pc[r] = "done"
                => /\ res[r].status = 500
                   /\ res[r].ctype = "application/json"
                   /\ res[r].error = "Internal server error"
                   /\ res[r].message = err[r]

\* A request was answered 500 after a trap inside the engine, and a request
\* whose cycle ran after that one was answered 200.
C5_Witness ==
    \E r, later \in Requests :
        /\ r # later
        /\ err[r] = <<"Decompilation failed: ", "WASM abort">>
        /\ res[r].status = 500
        /\ eng.input = later
        /\ res[later].status = 200

\* C6: an assemble request whose decoded engine response has success = false
\* is answered 200 with the response as its JSON body.
C6_EngineFailureAnswered200 ==
    \A r \in Requests :
        (bridge[r].op = "assemble" /\ bridge[r].bytes \in {"fail", "failNoError"} /\ pc[r] = "done")
        => res[r].status = 200 /\ res[r].ctype = "application/json"

\* The request reached authentication and failed it.
AuthFailed(r) ==
    /\ pc[r] # "idle"
    /\ req[r].url.valid
    /\ req[r].method = "POST"
    /\ req[r].url.pathname \in {decompileEndpoint, assembleEndpoint}
    /\ ~authenticate(req[r].headers)

\* C7: a request that fails authentication is answered 401, the upload
\* middleware never runs for it and neither initialize nor an engine export
\* is called for it.
C7_AuthFailureAnswered401 ==
    \A r \in Requests :
        AuthFailed(r)
        => /\ pc[r] = "done"
           /\ res[r].status = 401
           /\ calls[r].multer = 0
           /\ calls[r].init = 0
           /\ calls[r].engine = 0

\* The request carries exactly the Basic header of the configured user and password.
SendsConfiguredBasic(r) ==
    Header(req[r].headers, AuthorizationKey) = BasicHeader(cfg.authUser, cfg.authPassword)

\* The request carries the configured token header with the configured value.
SendsConfiguredToken(r) ==
    Header(req[r].headers, ToLowerCase(cfg.authTokenHeader)) = cfg.authTokenValue

\* C8: with AUTH_USER and AUTH_PASSWORD configured (any non-empty strings), a request
\* whose Basic header encodes exactly user:password is authenticated and goes
\* on to the upload, and one with a missing or different Basic header is
\* answered 401; with the token pair configured, a request is authenticated
\* iff the named header equals the configured value, and is answered 401
\* otherwise.
C8_CredentialsDecide ==
    \A r \in Requests :
        pc[r] # "idle" =>
            LET basic == Truthy(cfg.authUser) /\ Truthy(cfg.authPassword)
                token == Truthy(cfg.authTokenHeader) /\ Truthy(cfg.authTokenValue)
                answered401 == pc[r] = "done" /\ res[r].status = 401
            IN
            /\ (basic /\ SendsConfiguredBasic(r) /\ (token => SendsConfiguredToken(r)))
                    => pc[r] = "upload"
            /\ (basic /\ ~SendsConfiguredBasic(r)) => answered401
            /\ (token /\ SendsConfiguredToken(r) /\ (basic => SendsConfiguredBasic(r)))
                    => pc[r] = "upload"
            /\ (token /\ ~SendsConfiguredToken(r)) => answered401

\* C9: the basic-auth check is enforced exactly when AUTH_USER and
\* AUTH_PASSWORD are both set (to a non-empty value), the token check exactly
\* when AUTH_TOKEN_HEADER and AUTH_TOKEN_VALUE are both set; a request is
\* authenticated iff it passes every enforced check, so every request is
\* authenticated when no pair is set and both checks must pass when both are.
C9_ChecksEnforcedWhenConfigured ==
    \A r \in Requests :
        pc[r] # "idle" =>
            LET basicSet == Truthy(cfg.authUser) /\ Truthy(cfg.authPassword)
                tokenSet == Truthy(cfg.authTokenHeader) /\ Truthy(cfg.authTokenValue)
            IN (pc[r] = "upload")
               <=> /\ basicSet => BasicCheck(req[r].headers)
                   /\ tokenSet => TokenCheck(req[r].headers)

\* Both pairs are set and a request that passes both checks went on to the upload.
C9_Witness ==
    \E r \in Requests :
        /\ Truthy(cfg.authUser) /\ Truthy(cfg.authPassword)
        /\ Truthy(cfg.authTokenHeader) /\ Truthy(cfg.authTokenValue)
        /\ BasicCheck(req[r].headers)
        /\ TokenCheck(req[r].headers)
        /\ pc[r] = "upload"

\* The request is no POST, or its (parsed) path is neither endpoint.
OffRoute(r) ==
    \/ req[r].method # "POST"
    \/ req[r].url.valid /\ req[r].url.pathname \notin {decompileEndpoint, assembleEndpoint}

\* The request was answered 404 with a JSON error body before its body was
\* read and without a call of initialize or of an engine export.
AnsweredNotFound(r) ==
    /\ pc[r] = "done"
    /\ res[r].status = 404
    /\ res[r].ctype = "application/json"
    /\ res[r].error = "Not found"
    /\ calls[r].multer = 0
    /\ calls[r].init = 0
    /\ calls[r].engine = 0

\* C10, as claimed: every request that is no POST or whose path is neither
\* endpoint is answered 404, whatever its credentials, its body unread and
\* the engine untouched.
C10_EveryOffRouteRequest404 ==
    \A r \in Requests : (pc[r] # "idle" /\ OffRoute(r)) => AnsweredNotFound(r)

\* C10, amended: every request whose URL parses and that is no POST or whose
\* path is neither endpoint is answered 404, whatever its credentials, its
\* body unread and the engine untouched.
C10_ParsedOffRouteRequest404 ==
    \A r \in Requests :
        (pc[r] # "idle" /\ req[r].url.valid /\ OffRoute(r)) => AnsweredNotFound(r)

\* A GET on the decompile endpoint without the configured credentials was answered 404.
C10_Witness ==
    \E r \in Requests :
        /\ req[r].url.valid
        /\ req[r].method = "GET"
        /\ req[r].url.pathname = decompileEndpoint
        /\ BasicEnforced
        /\ ~authenticate(req[r].headers)
        /\ res[r].status = 404

\* The request carried no payload: no body at all, or a multipart body
\* without a file part.
NoPayload(r) ==
    req[r].body.kind = "none" \/ (req[r].body.kind = "multipart" /\ req[r].body.field = <<>>)

\* C11: a POST to an endpoint whose body, once the upload middleware has run
\* on it, holds no payload is answered 400 with a JSON error body, and
\* neither initialize nor an engine export is called for it.
C11_NoPayloadRejected ==
    \A r \in Requests :
        NoPayload(r)
        => /\ pc[r] = "done"
           /\ res[r].status = 400
           /\ res[r].ctype = "application/json"
           /\ res[r].error # ""
           /\ calls[r].init = 0
           /\ calls[r].engine = 0

\* A POST to the assemble endpoint without a body was answered "No file uploaded".
C11_Witness ==
    \E r \in Requests :
        /\ req[r].url.pathname = assembleEndpoint
        /\ req[r].body.kind = "none"
        /\ res[r].status = 400
        /\ res[r].error = "No file uploaded"

\* The name of the uploaded file does not end with ".j".
NotJName(name) == Len(name) < 2 \/ <<name[Len(name) - 1], name[Len(name)]>> # <<46, 106>>

\* C12: an assemble request whose uploaded file name does not end with ".j"
\* is answered 400, and neither initialize nor an engine export is called
\* for it.
C12_WrongExtensionRejected ==
    \A r \in Requests :
        (req[r].url.pathname = assembleEndpoint /\ file[r].present /\ NotJName(file[r].originalname))
        => /\ pc[r] = "done"
           /\ res[r].status = 400
           /\ calls[r].init = 0
           /\ calls[r].engine = 0

\* A file named A.J sent to the assemble endpoint was answered
\* "Assembly endpoint expects .j files".
C12_Witness ==
    \E r \in Requests :
        /\ req[r].url.pathname = assembleEndpoint
        /\ file[r].present
        /\ file[r].originalname = NameAJUpper
        /\ res[r].status = 400
        /\ res[r].error = "Assembly endpoint expects .j files"

\* C13: an authenticated POST to the decompile endpoint whose body is the
\* raw bytes of a class file (not multipart) starting with CA FE BA BE is
\* accepted: the bytes are the payload, and the request is not rejected as
\* invalid input.
C13_RawBodyAccepted ==
    \A r \in Requests :
        (/\ req[r].url.pathname = decompileEndpoint
         /\ req[r].body.kind = "raw"
         /\ ~BadMagic(req[r].body.bytes))
        => /\ file[r].present
           /\ file[r].buffer = req[r].body.bytes
           /\ res[r].status # 400

\* C14: every valid request that was submitted (handleRequest reached the
\* upload for it) is eventually answered, with exactly one response, 200,
\* decoded from the engine response computed from its own payload; no request
\* is ever answered twice.
C14_EachServedItsOwn ==
    /\ \A r \in Requests :
        (pc[r] = "upload")
        ~> (pc[r] = "done" /\ calls[r].answers = 1 /\ res[r].status = 200 /\ res[r].output = r)
    /\ [](\A r \in Requests : calls[r].answers <= 1)

\* Two requests that were in flight together (each started a load of the
\* module) were both answered 200, each with the output of its own payload.
C14_Witness ==
    \E r, other \in Requests :
        /\ r # other
        /\ loads.compile >= 2
        /\ res[r].status = 200 /\ res[r].output = r
        /\ res[other].status = 200 /\ res[other].output = other

\* C15: once an instance is stored in the server and an engine export of it
\* was called, no step replaces this.wasmInstance or this.memory.
C15_InstanceNeverReplaced ==
    [][(wasmInstance # 0 /\ eng.allocs > 0)
        => (wasmInstance' = wasmInstance /\ memory' = memory)]_vars

\* C16: a call of initialize made when the server is initialized performs no
\* compile and no instantiate and leaves wasmModule, wasmInstance, memory and
\* initialized (and the engine inside the instance) as they are.
C16_InitializeAgainIsNoOp ==
    [][\A r \in Requests :
        (initialized /\ calls'[r].init = calls[r].init + 1)
        => UNCHANGED <<wasmModule, wasmInstance, memory, initialized, loads, eng>>]_vars

\* initialize was called on an initialized server and returned.
C16_Witness ==
    \E r \in Requests :
        /\ pc[r] = "initReturned"
        /\ calls[r].init = 1
        /\ initialized
        /\ wasmInstance # 0

\* The load made for the request failed.
InitFailed(r) == err[r] # <<>> /\ err[r][1] = "Failed to initialize Krakatau: "

\* C17: with a build that exports memory and every required function but
\* assemble_json, the load succeeds: no decompile request fails with an
\* initialization error, and once a load has finished the server is
\* initialized.
C17_AssembleEntryOptional ==
    (wasmFile.exists /\ wasmFile.exports = AllExports \ {"assemble_json"})
    => \A r \in Requests :
        /\ bridge[r].op = "decompile" => ~InitFailed(r)
        /\ pc[r] \in {"initDone", "threw", "done"} /\ calls[r].init > 0 => initialized

\* The query string has the parameter with exactly the value "true".
IsTrueIn(search, name) == \E i \in DOMAIN search : search[i] = <<name, <<116, 114, 117, 101>>>>

\* C18: for a decompile request, the roundtrip and no_short_code_attr fields
\* of the request the bridge builds, and of the request written into engine
\* memory, are true iff the query has roundtrip, respectively
\* no_shortcodeattr, with exactly the value "true".
C18_OptionsForwarded ==
    \A r \in Requests :
        bridge[r].op = "decompile" =>
            LET search == req[r].url.search
                roundtrip == IsTrueIn(search, TxtRoundtrip)
                noShortCodeAttr == IsTrueIn(search, TxtNoShortCodeAttr)
            IN
            /\ bridge[r].request.roundtrip = roundtrip
            /\ bridge[r].request.no_short_code_attr = noShortCodeAttr
            /\ eng.input = r
                => /\ eng.request.roundtrip = roundtrip
                   /\ eng.request.no_short_code_attr = noShortCodeAttr

\* A request with ?roundtrip=true alone reached the engine with roundtrip
\* true and no_short_code_attr false.
C18_Witness ==
    \E r \in Requests :
        /\ req[r].url.search = << <<TxtRoundtrip, TxtTrue>> >>
        /\ eng.input = r
        /\ eng.request.roundtrip = TRUE
        /\ eng.request.no_short_code_attr = FALSE

\* The run has ended after a complete, successful cycle: the output was
\* printed and free_response returned.
RunSucceeded == cli.printed /\ cli.resp = "" /\ cli.free = 1

\* C19: the run of the command line tool ends with code 0 or 1, and with 0
\* exactly when its cycle succeeded and the output was printed: every error
\* (no argument, a missing class file, a missing module, the failure of a
\* step, a response with success = false) ends it with 1.
C19_ExitCodeTellsSuccess ==
    cli.pc = "exited"
    => /\ cli.exit \in {0, 1}
       /\ cli.exit = 0 <=> RunSucceeded
       /\ (~cli.argv \/ cli.classFile # "file" \/ ~cli.build.exists \/ ~cli.build.valid
            \/ cli.build.exports # AllExports \/ cli.bytes \in {"fail", "failNoError", "malformed"})
          => cli.exit = 1

\* A run ended with code 0 after a successful response was printed.
C19_Witness == cli.pc = "exited" /\ cli.exit = 0 /\ cli.printed /\ cli.bytes = "ok"

\* C20: a decompile call whose cycle fails, or that cannot run a cycle,
\* reports an error to its caller; the simulated text is never the result.
C20_FailuresReported ==
    page.pc = "settled"
    => /\ page.result # "simulated"
       /\ page.outcome # "ok" => page.result = "error"

\* C21: in every request cycle the response bytes are copied out of engine
\* memory into storage of the host before free_response is called (the copy
\* holds what the engine left there), and after free_response the cycle takes
\* no step that reads engine memory (the step at "copy" is the only one that does).
C21_CopiedBeforeFree ==
    [][\A r \in Requests :
        /\ (pc[r] = "free" /\ pc'[r] # "free") =>
                (bridge[r].copied /\ bridge[r].bytes = eng.resp /\ eng'.resp = "")
        /\ calls[r].free > 0 => (pc[r] # "copy" /\ pc'[r] # "copy")]_vars

\* free_response was called in a cycle that had copied the response.
C21_Witness ==
    /\ pc[1] = "check"
    /\ calls[1].free = 1
    /\ bridge[1].copied
    /\ bridge[1].bytes \in ResponseKinds
    /\ eng.resp = ""

\* C22: every request cycle makes the throwaway allocation before the
\* allocation for its payload, on the same instance: when the payload is
\* about to be allocated the current instance has served an allocation
\* already, and the allocation a payload is written to is never the first
\* one of its instance (also when a second concurrent load replaced the instance).
C22_FirstAllocationIsThrowaway ==
    \A r \in Requests :
        /\ pc[r] = "alloc" => (cur = r /\ eng.allocs >= 1 /\ calls[r].engine = 1)
        /\ pc[r] \in {"write", "invoke"} => (cur = r /\ eng.allocs >= 2 /\ calls[r].engine = 2)

\* Request 2's load stored its instance after request 1's, and request 2
\* allocated for its payload on that instance after a throwaway allocation.
C22_Witness ==
    /\ loads.instantiate = 2
    /\ wasmInstance = 2
    /\ pc[1] \notin {"idle", "upload", "compiling", "instantiating"}
    /\ pc[2] = "write"
    /\ eng.allocs = 2

\* C23: a cycle stops at the first failure indication and raises an error.
\* After a real allocation that returned 0 nothing was written to engine
\* memory and the entry point was not invoked (two engine calls were made);
\* after a negative status no response getter was called; after a negative
\* response length get_response_ptr was not called; after a response
\* address of 0 engine memory was not read.
C23_StopsAtFirstFailure ==
    \A r \in Requests :
        /\ bridge[r].inputPtr = 0 =>
                (BridgeRaised(r) /\ calls[r].engine = 2 /\ eng.input # r /\ bridge[r].status = Unset)
        /\ bridge[r].status = -1 =>
                (BridgeRaised(r) /\ calls[r].engine = 3 /\ bridge[r].responseLength = Unset
                    /\ bridge[r].responsePtr = Unset)
        /\ bridge[r].responseLength = -1 =>
                (BridgeRaised(r) /\ calls[r].engine = 4 /\ bridge[r].responsePtr = Unset)
        /\ bridge[r].responsePtr = 0 =>
                (BridgeRaised(r) /\ calls[r].engine = 5 /\ ~bridge[r].copied /\ bridge[r].bytes = "")

\* get_response_ptr returned 0 in a cycle whose earlier steps had succeeded.
C23_Witness ==
    /\ bridge[1].responsePtr = 0
    /\ bridge[1].inputPtr = 1024
    /\ bridge[1].status = 0
    /\ bridge[1].responseLength = 0
    /\ pc[1] = "threw"

\* The bridge call of request r returned a value (handleRequest may have
\* answered with it since).
BridgeReturned(r) == pc[r] = "returned" \/ (pc[r] = "done" /\ res[r].status = 200)

\* C24: a bridge call returns a value only when the decoded response has
\* success = true (a boolean, as the engine writes it): decompile returns the
\* response's output text, assemble the whole decoded response.  When success
\* is false the call raises an error with the response's error text, or with
\* a generic message when the response has none.
C24_ReturnsOnlyOnSuccess ==
    \A r \in Requests :
        /\ BridgeReturned(r) =>
                /\ bridge[r].bytes = "ok"
                /\ bridge[r].op = "decompile" =>
                        (bridge[r].value.type = "string" /\ bridge[r].value.text = bridge[r].result)
                /\ bridge[r].op = "assemble" =>
                        /\ bridge[r].value.type = "object"
                        /\ bridge[r].value.members =
                                [success |-> TRUE, output |-> bridge[r].result, error |-> ""]
        /\ (bridge[r].bytes \in {"fail", "failNoError"} /\ CycleEnded(r)) =>
                /\ pc[r] \in {"threw", "done"}
                /\ bridge[r].bytes = "fail" /\ bridge[r].op = "decompile" =>
                        err[r] = <<"Decompilation failed: ", "engine error text">>
                /\ bridge[r].bytes = "fail" /\ bridge[r].op = "assemble" =>
                        err[r] = <<"Assembly failed: ", "engine error text">>
                /\ bridge[r].bytes = "failNoError" /\ bridge[r].op = "decompile" =>
                        err[r] = <<"Decompilation failed: ", "Unknown decompilation error">>
                /\ bridge[r].bytes = "failNoError" /\ bridge[r].op = "assemble" =>
                        err[r] = <<"Assembly failed: ", "Unknown assembly error">>

\* An assemble call raised the generic message: the engine's response said
\* success = false and had no error text.
C24_Witness ==
    /\ bridge[1].op = "assemble"
    /\ pc[1] = "threw"
    /\ bridge[1].bytes = "failNoError"
    /\ calls[1].free = 1
    /\ err[1] = <<"Assembly failed: ", "Unknown assembly error">>

\* The request was dispatched to the engine: decompile() or assemble() was
\* called for it (the call starts with initialize() or with an engine export).
Dispatched(r) == calls[r].init > 0 \/ calls[r].engine > 0

\* The upload of the request passed the checks of its endpoint.
Validated(r) ==
    /\ calls[r].multer = 1
    /\ file[r].present
    /\ IF req[r].url.pathname = assembleEndpoint THEN EndsWith(file[r].originalname, ExtJ)
       ELSE EndsWith(file[r].originalname, ExtClass) /\ IsClassFile(file[r].buffer)

\* handleRequest has ended for the request: it returned after writing a
\* response, or its promise was rejected.
Terminal(r) == pc[r] \in {"done", "rejected"}

\* C25: every request follows Received, Authenticated, Validated,
\* Dispatched, Responded: the engine is dispatched only after the request
\* passed the route test, authentication and validation; no request has more
\* than one response written; and a request whose handling has ended has
\* exactly one response written.
C25_RequestStateMachine ==
    \A r \in Requests :
        /\ Dispatched(r) =>
                /\ RouteAccepted(req[r].method, req[r].url.pathname)
                /\ authenticate(req[r].headers)
                /\ Validated(r)
        /\ calls[r].answers <= 1
        /\ Terminal(r) => (calls[r].answers = 1 /\ res[r].status # 0)

\* C26: when initialization fails on first use (the module file is absent,
\* the build exports no memory or lacks a required function) the request
\* that triggered it is answered 500, the process keeps running, initialized
\* stays false, and every later bridge call attempts the load again: each
\* dispatched request ran initialize(), and with the file present each of
\* them compiled the module anew.
C26_FailedLoadIsRetried ==
    /\ ~initialized
    /\ crash = 0
    /\ \A r \in Requests :
        /\ Dispatched(r) => (calls[r].init = 1 /\ calls[r].engine = 0)
        /\ (Dispatched(r) /\ pc[r] \in {"threw", "done"}) => InitFailed(r)
        /\ (Dispatched(r) /\ pc[r] = "done") => (res[r].status = 500 /\ res[r].message = err[r])
    /\ wasmFile.exists => loads.compile = Cardinality({ r \in Requests : Dispatched(r) })

\* Request 1 was answered 500 after its load failed for a missing export,
\* and request 2 has loaded the module again and failed the same way.
C26_Witness ==
    /\ wasmFile.exists
    /\ "memory" \in wasmFile.exports
    /\ pc[1] = "done"
    /\ res[1].status = 500
    /\ InitFailed(1)
    /\ loads.instantiate = 2
    /\ pc[2] = "threw"
    /\ InitFailed(2)
    /\ ~initialized

\* C27: the load checks fail in a fixed order.  A missing module file is
\* reported before anything is compiled; a missing memory export is
\* reported whatever functions are missing too; otherwise the error names
\* the first absent function in the order allocate_input_buffer,
\* decompile_json, assemble_json, get_response_length, get_response_ptr,
\* free_response.
C27_LoadChecksInOrder ==
    LET order == << "allocate_input_buffer", "decompile_json", "assemble_json",
                    "get_response_length", "get_response_ptr", "free_response" >>
    IN
    \A r \in Requests :
        InitFailed(r) =>
            /\ ~wasmFile.exists =>
                    /\ err[r][2] = "WASM file not found"
                    /\ loads.compile = 0 /\ loads.instantiate = 0
            /\ (wasmFile.exists /\ "memory" \notin wasmFile.exports) =>
                    err[r][2] = "WASM module does not export memory"
            /\ (wasmFile.exists /\ "memory" \in wasmFile.exports) =>
                    \E i \in 1..6 :
                        /\ order[i] \notin wasmFile.exports
                        /\ \A j \in 1..(i - 1) : order[j] \in wasmFile.exports
                        /\ err[r][2] = "Required function " \o order[i] \o " not found in WASM module"

\* A load failed on a build that lacks decompile_json and free_response, and
\* the error names decompile_json.
C27_Witness ==
    /\ wasmFile.exists
    /\ wasmFile.exports = AllExports \ {"decompile_json", "free_response"}
    /\ InitFailed(1)
    /\ err[1][2] = "Required function decompile_json not found in WASM module"

\* C28: the view the request is written through is made after the real
\* allocation has returned and the view the response is read through is made
\* after the entry point has returned; a view is used in the step that
\* makes it, so the view a step writes or reads through has seen no engine
\* call since it was made.
C28_ViewsAreFresh ==
    [][\A r \in Requests :
        /\ (pc[r] = "write" /\ pc'[r] # "write") =>
                /\ bridge[r].inputPtr # Unset
                /\ bridge[r].wasmMemory = "none"
                /\ bridge'[r].wasmMemory = "fresh"
        /\ (pc[r] = "copy" /\ pc'[r] # "copy") =>
                /\ bridge[r].status # Unset
                /\ bridge[r].wasmMemory = "stale"
                /\ bridge'[r].readView \in {"wasmMemory", "responseMemory"}
                /\ bridge'[r][bridge'[r].readView] = "fresh"]_vars

\* The response was read after the entry point had returned, through a
\* second view, the first one being stale by then.
C28_Witness ==
    /\ pc[1] = "parse"
    /\ bridge[1].readView = "responseMemory"
    /\ bridge[1].responseMemory = "fresh"
    /\ bridge[1].wasmMemory = "stale"
    /\ bridge[1].copied

\* C29: every authentication failure is answered by a completed 401 with a
\* JSON error body, whichever scheme is configured, and the response carries
\* a WWW-Authenticate header exactly when AUTH_USER and AUTH_PASSWORD are both set.
C29_AuthFailureHint ==
    \A r \in Requests :
        AuthFailed(r)
        => /\ pc[r] = "done"
           /\ crash = 0
           /\ res[r].status = 401
           /\ res[r].ctype = "application/json"
           /\ res[r].error = "Authentication required"
           /\ (res[r].wwwAuth # "") <=> (Truthy(cfg.authUser) /\ Truthy(cfg.authPassword))

\* C30: in every reachable state of the server, initialized implies that
\* wasmInstance is set, that memory is the memory of the current
\* wasmInstance and that the build exports all six required functions; and
\* a request for which an engine export was called found initialized true.
C30_InitializedMeansLoaded ==
    /\ initialized =>
            /\ wasmInstance # 0
            /\ memory = wasmInstance
            /\ wasmFile.exists
            /\ { "allocate_input_buffer", "decompile_json", "assemble_json",
                 "get_response_length", "get_response_ptr", "free_response" } \subseteq wasmFile.exports
    /\ \A r \in Requests : (calls[r].engine > 0 \/ InCycle(r) \/ pc[r] = "alloc0") => initialized

\* The server is initialized, a second concurrent load has replaced the
\* instance and its memory, and the engine has been called for both requests.
C30_Witness ==
    /\ initialized
    /\ loads.instantiate = 2
    /\ wasmInstance = 2
    /\ memory = 2
    /\ calls[1].engine > 0
    /\ calls[2].engine > 0

\* The name of the uploaded file does not end with ".class".
NotClassName(name) ==
    Len(name) < 6 \/ SubSeq(name, Len(name) - 5, Len(name)) # <<46, 99, 108, 97, 115, 115>>

\* C31: on the decompile endpoint the file name is checked before the magic.
\* An upload whose name does not end with ".class" is answered 400 for its
\* name, whatever its first bytes are (also 0xCAFEBABE), and is never
\* dispatched; a dispatched upload has the extension and the magic.
C31_NameCheckedBeforeMagic ==
    \A r \in Requests :
        req[r].url.pathname = decompileEndpoint =>
            /\ (file[r].present /\ NotClassName(file[r].originalname)) =>
                    /\ pc[r] = "done"
                    /\ res[r].status = 400
                    /\ res[r].error = "Decompilation endpoint expects .class files"
                    /\ ~Dispatched(r)
            /\ Dispatched(r) =>
                    /\ file[r].present
                    /\ ~NotClassName(file[r].originalname)
                    /\ ~BadMagic(file[r].buffer)

\* A file named A.j that starts with CA FE BA BE was sent to the decompile
\* endpoint and answered 400 for its name.
C31_Witness ==
    /\ req[1].url.pathname = decompileEndpoint
    /\ file[1].present
    /\ file[1].originalname = NameAJ
    /\ ~BadMagic(file[1].buffer)
    /\ res[1].status = 400
    /\ res[1].error = "Decompilation endpoint expects .class files"
    /\ calls[1].init = 0
    /\ calls[1].engine = 0

\* C32: in the browser interface without simulation (part_001) a failure of
\* the instantiation is sticky.  Once useFallback is set, initialized is
\* set and stays set, no later call fetches the module again and no call
\* reaches the engine; every call that settles then is rejected with 'WASM
\* module not available'.  A call that settles with initialized false met a
\* fetch or compile failure, and every call made so far fetched the module.
C32_InstantiationFailureIsSticky ==
    /\ [](page.variant = "part_001" =>
            /\ page.useFallback =>
                    /\ page.initialized
                    /\ ~page.wasmInstance
                    /\ page.fetches = 1
                    /\ page.cycles = 0
                    /\ page.pc = "settled" =>
                            /\ page.result = "error"
                            /\ page.message =
                                "WASM module not available. Please ensure krak2.wasm is properly loaded."
            /\ (page.pc = "settled" /\ ~page.initialized) =>
                    /\ ~page.fetchOk \/ ~page.valid
                    /\ page.result = "error"
                    /\ page.message = "Failed to initialize Krakatau"
                    /\ page.fetches = page.callsMade)
    /\ [][(page.variant = "part_001" /\ page.useFallback) =>
            /\ page'.useFallback
            /\ page'.initialized
            /\ page'.fetches = page.fetches
            /\ page'.cycles = page.cycles]_vars

\* After an instantiation failure in part_001 a second call, to assemble(),
\* was rejected with 'WASM module not available' without another fetch.
C32_Witness ==
    /\ page.variant = "part_001"
    /\ page.useFallback
    /\ page.callsMade = 2
    /\ page.op = "assemble"
    /\ page.pc = "settled"
    /\ page.fetches = 1
    /\ page.result = "error"
    /\ page.message = MsgUnavailable

=============================================================================
